---- MODULE Spec2Model ----
(***************************************************************************)
(* Rules engine of the Hnefatafl game: board cells, allocation and set-up  *)
(* of the board, move validation, piece relocation, captures, the end of   *)
(* the game, save files and the turn loop of playGame, modelled from       *)
(* src/Sources/functions.cpp, src/main.cpp and the harness of              *)
(* src/Sources/tests.cpp.                                                  *)
(***************************************************************************)
EXTENDS Integers, FiniteSets, Sequences, TLC

(***************************************************************************)
(* Types of src/typeDef.h                                                  *)
(***************************************************************************)
LITTLE == 11
BIG == 13
BoardSize == {LITTLE, BIG}

ATTACK == "ATTACK"
DEFENSE == "DEFENSE"
PlayerRole == {ATTACK, DEFENSE}

NORMAL == "NORMAL"
FORTRESS == "FORTRESS"
CASTLE == "CASTLE"
CellType == {NORMAL, FORTRESS, CASTLE}

NONE == "NONE"
SHIELD == "SHIELD"
SWORD == "SWORD"
KING == "KING"
PieceType == {NONE, SHIELD, SWORD, KING}

Cell(ct, pt) == [itsCellType |-> ct, itsPieceType |-> pt]

\* A Position is the pair <<itsRow, itsCol>>.
Position(row, col) == <<row, col>>
itsRow(aPos) == aPos[1]
itsCol(aPos) == aPos[2]

Move(aStart, aEnd) == [itsStartPosition |-> aStart, itsEndPosition |-> aEnd]

\* The cells of an allocated board of size SIZE: itsCells[line][column].
BoardPositions(SIZE) == (0 .. SIZE - 1) \X (0 .. SIZE - 1)

\* Game::itsPlayer1 is the attacker, Game::itsPlayer2 the defender;
\* itsCurrentPlayer points to one of the two (1 or 2).
itsRole(aPlayer) == IF aPlayer = 1 THEN ATTACK ELSE DEFENSE

VARIABLES
    itsSize,           \* Board::itsSize
    itsCells,          \* Board::itsCells, a function BoardPositions -> Cell
    itsCurrentPlayer,  \* Game::itsCurrentPlayer: 1 = itsPlayer1, 2 = itsPlayer2
    pc,                \* position of the running function (playGame or a test)
    turnMove,          \* the Move last handed to isValidMovement / movePiece
    validMove,         \* the last result of isValidMovement
    cellsRead,         \* the positions whose cell the last isValidMovement read
    turns,             \* number of moves playGame has accepted so far
    returned,          \* the value the function under test returned
    cellsBefore,       \* itsCells as capturePieces found them in a test
    outsideAccess,     \* the capturePieces under test left the grid
    loaded,            \* playGame's loaded: the game was read from a save
    saveFile,          \* the content of the file Save/saveName, or NoFile
    itsNames           \* <<itsPlayer1.itsName, itsPlayer2.itsName>>

\* The variables only the tests of the endgame functions and of
\* capturePieces write.
testVars == <<returned, cellsBefore, outsideAccess>>

\* The variables only the save functions and the set-up of playGame write.
saveVars == <<loaded, saveFile, itsNames>>

vars == <<itsSize, itsCells, itsCurrentPlayer, pc, turnMove, validMove, cellsRead, turns,
          returned, cellsBefore, outsideAccess, loaded, saveFile, itsNames>>

\* No file of that name in the folder Save.
NoFile == [exists |-> FALSE, header |-> << >>, grid |-> << >>]

\* Player::itsName of itsPlayer1 and itsPlayer2 in a Game nothing has written.
DefaultNames == <<"Player 1", "Player 2">>

\* The names the players type in playGame, or a save holds.
TypedNames == << "Ragnar", "Olaf" >>

(***************************************************************************)
(* isValidPosition and the cell accessors                                  *)
(***************************************************************************)
isValidPosition(aPos, SIZE) ==
    /\ itsCol(aPos) >= 0 /\ itsCol(aPos) < SIZE
    /\ itsRow(aPos) >= 0 /\ itsRow(aPos) < SIZE

\* itsCells[row][col].itsPieceType and .itsCellType.  An access outside the
\* grid is undefined behaviour in the program; OutsideGrid marks such a read.
\* isValidMovement never makes one: its bounds test comes first.
OutsideGrid == "OUTSIDE"
pieceAt(aCells, aPos) ==
    IF aPos \in DOMAIN aCells THEN aCells[aPos].itsPieceType ELSE OutsideGrid
cellTypeAt(aCells, aPos) ==
    IF aPos \in DOMAIN aCells THEN aCells[aPos].itsCellType ELSE OutsideGrid

(***************************************************************************)
(* isValidMovement                                                         *)
(***************************************************************************)
\* Variant: the bounds test looks at the end position only.
moveOutOfBounds_endOnly(SIZE, aMove) ==
    \/ itsRow(aMove.itsEndPosition) < 0 \/ itsRow(aMove.itsEndPosition) >= SIZE
    \/ itsCol(aMove.itsEndPosition) < 0 \/ itsCol(aMove.itsEndPosition) >= SIZE

\* The bounds test on both ends of the move, made before any cell access.
moveOutOfBounds(SIZE, aMove) ==
    \/ itsRow(aMove.itsEndPosition) < 0 \/ itsRow(aMove.itsEndPosition) >= SIZE
    \/ itsCol(aMove.itsEndPosition) < 0 \/ itsCol(aMove.itsEndPosition) >= SIZE
    \/ itsRow(aMove.itsStartPosition) < 0 \/ itsRow(aMove.itsStartPosition) >= SIZE
    \/ itsCol(aMove.itsStartPosition) < 0 \/ itsCol(aMove.itsStartPosition) >= SIZE

\* Variant: the DEFENSE test forgets the empty start cell.
wrongOwner_emptyAllowed(role, piece) ==
    \/ role = ATTACK /\ piece # SWORD
    \/ role = DEFENSE /\ piece = SWORD

\* "test if player try to moove a right piece"
wrongOwner(role, piece) ==
    \/ role = ATTACK /\ piece # SWORD
    \/ role = DEFENSE /\ (piece = SWORD \/ piece = NONE)

\* "test if a other piece than king try to escape or enter in castle"
restrictedDestination(startPiece, endCellType) ==
    startPiece # KING /\ (endCellType = FORTRESS \/ endCellType = CASTLE)

sameCell(aMove) ==
    /\ itsCol(aMove.itsEndPosition) = itsCol(aMove.itsStartPosition)
    /\ itsRow(aMove.itsEndPosition) = itsRow(aMove.itsStartPosition)

\* Variant: every move is handled by the column branch.
columnMove_always(aMove) == TRUE

\* "test the movement on columns": the move stays in its column.
columnMove(aMove) == itsCol(aMove.itsEndPosition) = itsCol(aMove.itsStartPosition)

\* The move stays in its row.
rowMove(aMove) == itsRow(aMove.itsEndPosition) = itsRow(aMove.itsStartPosition)

\* min and max of the loops: the smaller and the larger of the two indices.
minIndex(a, b) == IF a < b THEN a ELSE b
maxIndex(a, b) == IF a < b THEN b ELSE a

\* Variant: the loops stop before max (i < max).
pathRange_exclusive(min, max) == (min + 1) .. (max - 1)

\* The indices the blocking loops visit: for (int i = min+1 ; i <= max ; i++)
pathRange(min, max) == (min + 1) .. max

\* Variant: the loop body tests the piece only, not the cell type.
pathCellBlocked_pieceOnly(aCells, aPos) == pieceAt(aCells, aPos) # NONE

\* The loop body's test: the cell holds a piece or is not NORMAL.
pathCellBlocked(aCells, aPos) ==
    pieceAt(aCells, aPos) # NONE \/ cellTypeAt(aCells, aPos) # NORMAL

\* Variant: nothing restricts the cell type of the destination; the
\* destination only has to be empty and the loops stop before it.
isValidMovement_anyDestination(aCells, SIZE, role, aMove) ==
    LET start == aMove.itsStartPosition
        end   == aMove.itsEndPosition
    IN  IF moveOutOfBounds(SIZE, aMove) THEN FALSE
        ELSE IF wrongOwner(role, pieceAt(aCells, start)) THEN FALSE
        ELSE IF sameCell(aMove) THEN FALSE
        ELSE IF pieceAt(aCells, end) # NONE THEN FALSE
        ELSE IF columnMove(aMove) THEN
            LET min == minIndex(itsRow(start), itsRow(end))
                max == maxIndex(itsRow(start), itsRow(end))
            IN  \A i \in (min + 1) .. (max - 1) :
                    ~pathCellBlocked(aCells, Position(i, itsCol(start)))
        ELSE IF rowMove(aMove) THEN
            LET min == minIndex(itsCol(start), itsCol(end))
                max == maxIndex(itsCol(start), itsCol(end))
            IN  \A i \in (min + 1) .. (max - 1) :
                    ~pathCellBlocked(aCells, Position(itsRow(start), i))
        ELSE FALSE


isValidMovement(aCells, SIZE, role, aMove) ==
    LET start == aMove.itsStartPosition
        end   == aMove.itsEndPosition
    IN  IF moveOutOfBounds(SIZE, aMove) THEN FALSE
        ELSE IF wrongOwner(role, pieceAt(aCells, start)) THEN FALSE
        ELSE IF restrictedDestination(pieceAt(aCells, start), cellTypeAt(aCells, end))
             THEN FALSE
        ELSE IF sameCell(aMove) THEN FALSE
        ELSE IF columnMove(aMove) THEN
            LET min == minIndex(itsRow(start), itsRow(end))
                max == maxIndex(itsRow(start), itsRow(end))
            IN  IF pieceAt(aCells, Position(itsRow(end), itsCol(start))) # NONE
                THEN FALSE
                ELSE \A i \in pathRange(min, max) :
                        ~pathCellBlocked(aCells, Position(i, itsCol(start)))
        ELSE IF rowMove(aMove) THEN
            LET min == minIndex(itsCol(start), itsCol(end))
                max == maxIndex(itsCol(start), itsCol(end))
            IN  \A i \in pathRange(min, max) :
                    ~pathCellBlocked(aCells, Position(itsRow(start), i))
        ELSE FALSE

\* The positions whose cell isValidMovement accesses on this call, following
\* the same control flow (short-circuit evaluation and early returns).
isValidMovementReads(aCells, SIZE, role, aMove) ==
    LET start == aMove.itsStartPosition
        end   == aMove.itsEndPosition
        ownerReads == {start}
        destReads  == IF pieceAt(aCells, start) # KING THEN {start, end} ELSE {start}
    IN  IF moveOutOfBounds(SIZE, aMove) THEN {}
        ELSE IF wrongOwner(role, pieceAt(aCells, start)) THEN ownerReads
        ELSE IF restrictedDestination(pieceAt(aCells, start), cellTypeAt(aCells, end))
             THEN destReads
        ELSE IF sameCell(aMove) THEN destReads
        ELSE IF columnMove(aMove) THEN
            LET min == minIndex(itsRow(start), itsRow(end))
                max == maxIndex(itsRow(start), itsRow(end))
                target == Position(itsRow(end), itsCol(start))
            IN  IF pieceAt(aCells, target) # NONE
                THEN destReads \cup {target}
                ELSE destReads \cup {target} \cup
                     { Position(i, itsCol(start)) : i \in
                        { k \in pathRange(min, max) :
                            \A j \in pathRange(min, max) :
                                j < k => ~pathCellBlocked(aCells, Position(j, itsCol(start))) } }
        ELSE IF rowMove(aMove) THEN
            LET min == minIndex(itsCol(start), itsCol(end))
                max == maxIndex(itsCol(start), itsCol(end))
            IN  destReads \cup
                { Position(itsRow(start), i) : i \in
                    { k \in pathRange(min, max) :
                        \A j \in pathRange(min, max) :
                            j < k => ~pathCellBlocked(aCells, Position(itsRow(start), j)) } }
        ELSE destReads

(***************************************************************************)
(* movePiece                                                               *)
(***************************************************************************)
\* Variant: the start cell is not cleared.
movePiece_keepStart(aCells, aMove) ==
    [aCells EXCEPT ![aMove.itsEndPosition].itsPieceType =
                        pieceAt(aCells, aMove.itsStartPosition)]


movePiece(aCells, aMove) ==
    LET start == aMove.itsStartPosition
        end   == aMove.itsEndPosition
        piece == pieceAt(aCells, start)
        cleared == [aCells EXCEPT ![start].itsPieceType = NONE]
    IN  [cleared EXCEPT ![end].itsPieceType = piece]

(***************************************************************************)
(* Test harness of tests.cpp: resetBoard, then the piece and the obstacles *)
(* of one test case are written into the cells.                            *)
(***************************************************************************)
resetBoard(SIZE) == [p \in BoardPositions(SIZE) |-> Cell(NORMAL, NONE)]

\* "Place the main piece for this test"
placeMainPiece(aCells, piecePos, pieceType, cellType) ==
    IF pieceType # NONE
    THEN [aCells EXCEPT ![piecePos] = Cell(cellType, pieceType)]
    ELSE aCells

\* "Place obstacles (pieces or special cells)": one obstacle.
placeObstacle(aCells, obstaclePos, obstaclePiece, obstacleCell) ==
    [aCells EXCEPT ![obstaclePos] = Cell(obstacleCell, obstaclePiece)]

\* Distance between the positions the test cases use.
TestSpan == 2

\* Where a test case puts its main piece: the ends of a row segment and of a
\* column segment that start on the corner cell.
TestPiecePositions == {Position(0, 0), Position(0, TestSpan), Position(TestSpan, 0)}

\* Where a test case puts its obstacle: anywhere on the two segments.
TestObstaclePositions ==
    {Position(0, c) : c \in 0 .. TestSpan} \cup {Position(r, 0) : r \in 0 .. TestSpan}

\* The board of a test case with no obstacle or with one obstacle.
TestBoards(SIZE) ==
    LET withPiece == { placeMainPiece(resetBoard(SIZE), p, pt, ct) :
                         p \in TestPiecePositions, pt \in PieceType, ct \in CellType }
    IN  withPiece \cup
        { placeObstacle(b, o, opt, oct) :
            b \in withPiece, o \in TestObstaclePositions,
            opt \in PieceType, oct \in CellType }

\* Positions given to the functions under test: the piece positions and two
\* positions outside the grid (a negative row, a column equal to the size).
TestMovePositions(SIZE) ==
    TestPiecePositions \cup {Position(-1, 0), Position(0, SIZE)}

TestMoves(SIZE) ==
    { Move(s, e) : s \in TestMovePositions(SIZE), e \in TestMovePositions(SIZE) }

NoMove == Move(Position(-1, -1), Position(-1, -1))

InitTest ==
    /\ itsSize \in BoardSize
    /\ itsCells \in TestBoards(itsSize)
    /\ itsCurrentPlayer \in {1, 2}
    /\ pc = "test"
    /\ turnMove = NoMove
    /\ validMove = FALSE
    /\ cellsRead = {}
    /\ turns = 0
    /\ returned = FALSE
    /\ cellsBefore = itsCells
    /\ outsideAccess = FALSE
    /\ loaded = FALSE
    /\ saveFile = NoFile
    /\ itsNames = DefaultNames

\* test_isValidMovement: "Execute the move validation"
TestIsValidMovement ==
    /\ pc = "test"
    /\ \E m \in TestMoves(itsSize) :
        /\ turnMove' = m
        /\ validMove' = isValidMovement(itsCells, itsSize, itsRole(itsCurrentPlayer), m)
        /\ cellsRead' = isValidMovementReads(itsCells, itsSize, itsRole(itsCurrentPlayer), m)
    /\ pc' = "validated"
    /\ UNCHANGED <<itsSize, itsCells, itsCurrentPlayer, turns, testVars, saveVars>>

\* test_movePiece: "Execute move" on in-bounds positions, without validation.
TestMovePiece ==
    /\ pc = "test"
    /\ \E m \in TestMoves(itsSize) :
        /\ ~moveOutOfBounds(itsSize, m)
        /\ turnMove' = m
        /\ itsCells' = movePiece(itsCells, m)
    /\ pc' = "moved"
    /\ UNCHANGED <<itsSize, itsCurrentPlayer, validMove, cellsRead, turns, testVars, saveVars>>

NextTest == TestIsValidMovement \/ TestMovePiece

SpecTest == InitTest /\ [][NextTest]_vars

(***************************************************************************)
(* initializeBoard                                                         *)
(***************************************************************************)
\* Variant: the corner test joins the line test and the column test by ||,
\* so every cell of the four edges is a FORTRESS.
initialCell_edges(SIZE, line, column) ==
    IF line = SIZE \div 2 /\ column = SIZE \div 2 THEN Cell(CASTLE, KING)
    ELSE IF (line = 0 \/ line = SIZE - 1) \/ (column = 0 \/ column = SIZE - 1)
         THEN Cell(FORTRESS, NONE)
    ELSE Cell(NORMAL, NONE)

\* First pass: the cell type of every cell, the KING on the center cell.
initialCell(SIZE, line, column) ==
    IF line = SIZE \div 2 /\ column = SIZE \div 2 THEN Cell(CASTLE, KING)
    ELSE IF (line = 0 \/ line = SIZE - 1) /\ (column = 0 \/ column = SIZE - 1)
         THEN Cell(FORTRESS, NONE)
    ELSE Cell(NORMAL, NONE)

LITTLE_CENTER == 5
BIG_CENTER == 6

\* Variant: the test column != CENTER is missing, and the centre cell
\* receives a SHIELD too.
shieldCells_centreToo(SIZE) ==
    { q \in BoardPositions(SIZE) :
        /\ SIZE \in {11, 13}
        /\ \/ q[1] = SIZE \div 2 /\ q[2] >= 3 /\ q[2] <= SIZE - 4
           \/ q[2] = SIZE \div 2 /\ q[1] >= 3 /\ q[1] <= SIZE - 4
           \/ SIZE = 11 /\ q[1] \in {4, 6} /\ q[2] \in {4, 6} }

\* Second pass: the cells [line][column] and [column][line] that receive a
\* SHIELD, for the loop indices (line, column) that pass the tests.
shieldCells(SIZE) ==
    IF SIZE = 11 THEN
        UNION { {Position(line, column), Position(column, line)} :
                  <<line, column>> \in { q \in BoardPositions(SIZE) :
                      /\ q[1] = LITTLE_CENTER /\ q[2] # LITTLE_CENTER
                      /\ q[2] >= LITTLE_CENTER - 2 /\ q[2] <= LITTLE_CENTER + 2 } }
        \cup
        { q \in BoardPositions(SIZE) :
            /\ (q[1] = LITTLE_CENTER - 1 \/ q[1] = LITTLE_CENTER + 1)
            /\ (q[2] = LITTLE_CENTER - 1 \/ q[2] = LITTLE_CENTER + 1) }
    ELSE IF SIZE = 13 THEN
        UNION { {Position(line, column), Position(column, line)} :
                  <<line, column>> \in { q \in BoardPositions(SIZE) :
                      /\ q[1] = BIG_CENTER /\ q[2] # BIG_CENTER
                      /\ q[2] >= BIG_CENTER - 3 /\ q[2] <= BIG_CENTER + 3 } }
    ELSE {}

\* Variant: the SWORDs one step inward from the middle of each edge are
\* not placed.
swordCells_edgesOnly(SIZE) ==
    { q \in BoardPositions(SIZE) :
        /\ SIZE \in {11, 13}
        /\ \/ (q[1] = 0 \/ q[1] = SIZE - 1) /\ q[2] >= SIZE \div 2 - 2 /\ q[2] <= SIZE \div 2 + 2
           \/ (q[2] = 0 \/ q[2] = SIZE - 1) /\ q[1] >= SIZE \div 2 - 2 /\ q[1] <= SIZE \div 2 + 2 }

\* Second pass: the cells that receive a SWORD.
swordCells(SIZE) ==
    IF SIZE = 11 THEN
        UNION { {Position(line, column), Position(column, line)} :
                  <<line, column>> \in { q \in BoardPositions(SIZE) :
                      \/ (q[1] = 0 \/ q[1] = SIZE - 1) /\ q[2] > 2 /\ q[2] < 8
                      \/ q[1] = LITTLE_CENTER /\ (q[2] = 1 \/ q[2] = 9) } }
    ELSE IF SIZE = 13 THEN
        UNION { {Position(line, column), Position(column, line)} :
                  <<line, column>> \in { q \in BoardPositions(SIZE) :
                      \/ (q[1] = 0 \/ q[1] = SIZE - 1) /\ q[2] > 3 /\ q[2] < 9
                      \/ q[1] = BIG_CENTER /\ (q[2] = 1 \/ q[2] = 11) } }
    ELSE {}

\* The board after initializeBoard.  The SHIELD and SWORD writes touch
\* itsPieceType only; in one loop iteration the SWORD writes come last.
initializeBoard(SIZE) ==
    [p \in BoardPositions(SIZE) |->
        IF p \in swordCells(SIZE)
        THEN Cell(initialCell(SIZE, p[1], p[2]).itsCellType, SWORD)
        ELSE IF p \in shieldCells(SIZE)
        THEN Cell(initialCell(SIZE, p[1], p[2]).itsCellType, SHIELD)
        ELSE initialCell(SIZE, p[1], p[2])]

(***************************************************************************)
(* capturePieces                                                           *)
(***************************************************************************)
\* The loop order of aroundCells, as <<itsRow, itsCol>> offsets.
aroundCells == << <<0, -1>>, <<0, 1>>, <<-1, 0>>, <<1, 0>> >>

\* What a read outside the grid may yield: any piece or cell type, or a value
\* that is none of the enumerators.
Garbage == "GARBAGE"
WildCells == { Cell(ct, pt) : ct \in CellType \cup {Garbage}, pt \in PieceType \cup {Garbage} }

\* itsCells[row][col] as capturePieces reads it: wildBelow stands for the
\* memory read at a row index >= SIZE, wildRight for the memory read at a
\* column index >= SIZE of an allocated row.
readCell(aCells, SIZE, aPos, wildBelow, wildRight) ==
    IF aPos \in DOMAIN aCells THEN aCells[aPos]
    ELSE IF itsRow(aPos) >= SIZE THEN wildBelow
    ELSE wildRight

\* "test if the tested cell is in bounds" (the upper row bound is tested on
\* itsRow + arroundCell.itsCol).
aroundInBounds(SIZE, end, d) ==
    /\ itsRow(end) + d[1] >= 0 /\ itsRow(end) + d[2] < SIZE
    /\ itsCol(end) + d[2] >= 0 /\ itsCol(end) + d[2] < SIZE

\* The first four terms of the capture condition.
edgeCondition(SIZE, end, d) ==
    \/ itsRow(end) + d[1] = 0
    \/ itsRow(end) + d[2] = SIZE - 1
    \/ itsCol(end) + d[2] = 0
    \/ itsRow(end) + d[2] = SIZE - 1

\* The remaining terms, on the cell two steps away.
beyondCondition(role, beyond) ==
    IF role = DEFENSE
    THEN \/ beyond.itsPieceType = SHIELD
         \/ beyond.itsPieceType = KING
         \/ beyond.itsCellType = FORTRESS
         \/ beyond.itsCellType = CASTLE /\ beyond.itsPieceType = NONE
    ELSE \/ beyond.itsPieceType = SWORD
         \/ beyond.itsCellType = FORTRESS
         \/ beyond.itsCellType = CASTLE /\ beyond.itsPieceType = NONE

\* Variant: the side that moved captures its own soldiers.
enemyPiece_own(role) == IF role = DEFENSE THEN SHIELD ELSE SWORD

\* The piece kind the side that moved captures.
enemyPiece(role) == IF role = DEFENSE THEN SWORD ELSE SHIELD

\* One iteration of the loop over aroundCells.  st.cells are the cells so far;
\* st.outside tells whether a cell outside the grid was read or written.
captureAround(st, SIZE, role, end, d, wildBelow, wildRight) ==
    LET adjacent == Position(itsRow(end) + d[1], itsCol(end) + d[2])
        beyond   == Position(itsRow(end) + 2 * d[1], itsCol(end) + 2 * d[2])
        adjOut   == adjacent \notin DOMAIN st.cells
        beyOut   == beyond \notin DOMAIN st.cells
    IN  IF ~aroundInBounds(SIZE, end, d) THEN st
        ELSE IF readCell(st.cells, SIZE, adjacent, wildBelow, wildRight).itsPieceType
                    # enemyPiece(role)
             THEN [st EXCEPT !.outside = @ \/ adjOut]
        ELSE IF edgeCondition(SIZE, end, d)
             THEN [cells |-> IF adjOut THEN st.cells
                             ELSE [st.cells EXCEPT ![adjacent].itsPieceType = NONE],
                   outside |-> st.outside \/ adjOut]
        ELSE IF beyondCondition(role, readCell(st.cells, SIZE, beyond, wildBelow, wildRight))
             THEN [cells |-> IF adjOut THEN st.cells
                             ELSE [st.cells EXCEPT ![adjacent].itsPieceType = NONE],
                   outside |-> st.outside \/ adjOut \/ beyOut]
        ELSE [st EXCEPT !.outside = @ \/ adjOut \/ beyOut]

\* The whole function: the four directions in the order of aroundCells.
capturePieces(aCells, SIZE, role, aMove, wildBelow, wildRight) ==
    LET end == aMove.itsEndPosition
        s0 == [cells |-> aCells, outside |-> FALSE]
        s1 == captureAround(s0, SIZE, role, end, aroundCells[1], wildBelow, wildRight)
        s2 == captureAround(s1, SIZE, role, end, aroundCells[2], wildBelow, wildRight)
        s3 == captureAround(s2, SIZE, role, end, aroundCells[3], wildBelow, wildRight)
    IN  captureAround(s3, SIZE, role, end, aroundCells[4], wildBelow, wildRight)

(***************************************************************************)
(* test_capturePieces: a board is set up cell by cell, the move is         *)
(* executed and capturePieces is called for the side that moved.           *)
(***************************************************************************)
\* A row and column index away from every edge on both board sizes.
CaptureMiddle == 5

\* Destinations of the tested moves: the middle of the board, the middle of
\* each edge, the cells next to the middle of each edge, and two corners.
CaptureEnds(SIZE) ==
    { Position(CaptureMiddle, CaptureMiddle),
      Position(0, CaptureMiddle), Position(SIZE - 1, CaptureMiddle),
      Position(CaptureMiddle, 0), Position(CaptureMiddle, SIZE - 1),
      Position(1, CaptureMiddle), Position(SIZE - 2, CaptureMiddle),
      Position(CaptureMiddle, 1), Position(CaptureMiddle, SIZE - 2),
      Position(0, 0), Position(SIZE - 1, 0) }

\* The moving piece starts three columns away from its destination, outside
\* the cells capturePieces looks at.
captureStart(SIZE, end) ==
    IF itsCol(end) + 3 < SIZE
    THEN Position(itsRow(end), itsCol(end) + 3)
    ELSE Position(itsRow(end), itsCol(end) - 3)

\* The side to move and the piece it moves.
CaptureMovers == { <<1, SWORD>>, <<2, SHIELD>> }

\* {position, cellType, pieceType} entries of a test case for one direction:
\* the cell next to the destination and the cell beyond it.  An entry whose
\* position is outside the grid is left out.
setupDirection(aCells, end, d, adjacentCell, beyondCell) ==
    LET adjacent == Position(itsRow(end) + d[1], itsCol(end) + d[2])
        beyond   == Position(itsRow(end) + 2 * d[1], itsCol(end) + 2 * d[2])
        withAdjacent == IF adjacent \in DOMAIN aCells
                        THEN [aCells EXCEPT ![adjacent] = adjacentCell]
                        ELSE aCells
    IN  IF beyond \in DOMAIN aCells
        THEN [withAdjacent EXCEPT ![beyond] = beyondCell]
        ELSE withAdjacent

\* What the test cases put next to the destination and beyond it.
AdjacentSetups == { Cell(NORMAL, pt) : pt \in PieceType }
BeyondSetups == { Cell(ct, pt) : ct \in CellType, pt \in PieceType }

\* A second direction of the same test case holds a piece of the other side
\* with nothing or a piece like the moving one beyond it.
SecondAdjacentSetups(piece) == { Cell(NORMAL, IF piece = SWORD THEN SHIELD ELSE SWORD) }
SecondBeyondSetups(piece) == { Cell(NORMAL, NONE), Cell(NORMAL, piece) }

\* The direction that follows direction i in aroundCells.
nextDirection(i) == (i % 4) + 1

\* The board of a test case for one destination and one moving piece: one
\* direction is set up, or two.
captureBoard(SIZE, end, piece, i, adjacentCell, beyondCell) ==
    setupDirection(
        placeMainPiece(resetBoard(SIZE), captureStart(SIZE, end), piece, NORMAL),
        end, aroundCells[i], adjacentCell, beyondCell)

InitCapture ==
    /\ itsSize \in BoardSize
    /\ \E end \in CaptureEnds(itsSize), mover \in CaptureMovers,
          i \in 1 .. 4, a \in AdjacentSetups, b \in BeyondSetups :
        /\ itsCurrentPlayer = mover[1]
        /\ \/ itsCells = captureBoard(itsSize, end, mover[2], i, a, b)
           \/ \E a2 \in SecondAdjacentSetups(mover[2]), b2 \in SecondBeyondSetups(mover[2]) :
                itsCells = setupDirection(captureBoard(itsSize, end, mover[2], i, a, b),
                                          end, aroundCells[nextDirection(i)], a2, b2)
        /\ turnMove = Move(captureStart(itsSize, end), end)
    /\ pc = "test"
    /\ validMove = FALSE
    /\ cellsRead = {}
    /\ turns = 0
    /\ returned = FALSE
    /\ cellsBefore = itsCells
    /\ outsideAccess = FALSE
    /\ loaded = FALSE
    /\ saveFile = NoFile
    /\ itsNames = DefaultNames

\* The memory a row index >= SIZE can reach, for a destination from which
\* capturePieces can form such an index (the largest is itsRow + 2).
wildBelowChoices(SIZE, end) ==
    IF itsRow(end) + 2 >= SIZE THEN WildCells ELSE {Cell(Garbage, Garbage)}

\* The same for a column index >= SIZE (the largest is itsCol + 2).
wildRightChoices(SIZE, end) ==
    IF itsCol(end) + 2 >= SIZE THEN WildCells ELSE {Cell(Garbage, Garbage)}

\* "Execute move and capture".  cellsBefore keeps the board between the two
\* calls.  An access outside the grid yields some value, or the test dies.
TestCapturePieces ==
    /\ pc = "test"
    /\ cellsBefore' = movePiece(itsCells, turnMove)
    /\ \E wildBelow \in wildBelowChoices(itsSize, turnMove.itsEndPosition),
          wildRight \in wildRightChoices(itsSize, turnMove.itsEndPosition) :
        LET st == capturePieces(cellsBefore', itsSize, itsRole(itsCurrentPlayer), turnMove,
                                wildBelow, wildRight)
        IN  /\ itsCells' = st.cells
            /\ outsideAccess' = st.outside
            /\ \/ pc' = "captured"
               \/ st.outside /\ pc' = "crashed"
    /\ UNCHANGED <<itsSize, itsCurrentPlayer, turnMove, validMove, cellsRead, turns, returned, saveVars>>

NextCapture == TestCapturePieces

SpecCapture == InitCapture /\ [][NextCapture]_vars

(***************************************************************************)
(* switchCurrentPlayer                                                     *)
(***************************************************************************)
\* Variant: the pointer is compared and left as it is.
switchCurrentPlayer_stay(aCurrentPlayer) == aCurrentPlayer

switchCurrentPlayer(aCurrentPlayer) == IF aCurrentPlayer = 1 THEN 2 ELSE 1

(***************************************************************************)
(* Endgame: isSwordLeft, getKingPosition, isKingEscaped,                   *)
(* isKingCapturedSimple, isGameFinished                                    *)
(***************************************************************************)
isSwordLeft(aCells) == \E p \in DOMAIN aCells : aCells[p].itsPieceType = SWORD

\* The first KING in row-major order, or {-1, -1}.
getKingPosition(aCells) ==
    LET kings == { p \in DOMAIN aCells : aCells[p].itsPieceType = KING }
    IN  IF kings = {} THEN Position(-1, -1)
        ELSE CHOOSE p \in kings :
                \A q \in kings : p[1] < q[1] \/ (p[1] = q[1] /\ p[2] <= q[2])

\* Variant: the CASTLE counts as an escape cell too.
isKingEscaped_castleToo(aCells) ==
    LET kingCoords == getKingPosition(aCells)
    IN  IF itsRow(kingCoords) = -1 THEN FALSE
        ELSE aCells[kingCoords].itsCellType # NORMAL

isKingEscaped(aCells) ==
    LET kingCoords == getKingPosition(aCells)
    IN  IF itsRow(kingCoords) = -1 THEN FALSE
        ELSE aCells[kingCoords].itsCellType = FORTRESS

\* Variant: any piece next to the King counts, a SHIELD too.
isKingCapturedSimple_anyPiece(aCells, SIZE) ==
    LET kingPos == getKingPosition(aCells)
        kingArounds == { Position(itsRow(kingPos), itsCol(kingPos) + 1),
                         Position(itsRow(kingPos), itsCol(kingPos) - 1),
                         Position(itsRow(kingPos) + 1, itsCol(kingPos)),
                         Position(itsRow(kingPos) - 1, itsCol(kingPos)) }
    IN  IF itsRow(kingPos) = -1 THEN FALSE
        ELSE \A cardPoint \in kingArounds :
                \/ itsCol(cardPoint) < 0 \/ itsCol(cardPoint) >= SIZE
                \/ itsRow(cardPoint) < 0 \/ itsRow(cardPoint) >= SIZE
                \/ aCells[cardPoint].itsPieceType # NONE
                \/ aCells[cardPoint].itsCellType = CASTLE
                \/ aCells[cardPoint].itsCellType = FORTRESS

isKingCapturedSimple(aCells, SIZE) ==
    LET kingPos == getKingPosition(aCells)
        kingArounds == { Position(itsRow(kingPos), itsCol(kingPos) + 1),
                         Position(itsRow(kingPos), itsCol(kingPos) - 1),
                         Position(itsRow(kingPos) + 1, itsCol(kingPos)),
                         Position(itsRow(kingPos) - 1, itsCol(kingPos)) }
    IN  IF itsRow(kingPos) = -1 THEN FALSE
        ELSE \A cardPoint \in kingArounds :
                \/ itsCol(cardPoint) < 0 \/ itsCol(cardPoint) >= SIZE
                \/ itsRow(cardPoint) < 0 \/ itsRow(cardPoint) >= SIZE
                \/ aCells[cardPoint].itsPieceType = SWORD
                \/ aCells[cardPoint].itsCellType = CASTLE
                \/ aCells[cardPoint].itsCellType = FORTRESS

\* Position checkArray[4] of isKingCapturedRecursive, as <<itsRow, itsCol>>.
checkArray == << <<0, -1>>, <<0, 1>>, <<-1, 0>>, <<1, 0>> >>

\* "If the current cell is not a king or shield": the two tests are joined
\* by ||.
notKingOrShield(piece) == piece # KING \/ piece # SHIELD

\* The tracking array a call allocates: all false, then
\* isCellChecked[itsRow][itsRow] = true.
isCellChecked(SIZE, aKingPos) ==
    [p \in BoardPositions(SIZE) |-> p = Position(itsRow(aKingPos), itsRow(aKingPos))]

RECURSIVE isKingCapturedRecursive(_, _, _)

\* Variant: captured as soon as no cell next to the King itself is empty and
\* NORMAL; the SHIELDs next to the King are not followed.
isKingCapturedRecursive_neighboursOnly(aCells, SIZE, aKingPos) ==
    LET kingPos == getKingPosition(aCells)
    IN  IF itsCol(kingPos) = -1 THEN FALSE
        ELSE \A i \in 1 .. 4 :
                LET pos == Position(itsRow(kingPos) + checkArray[i][1],
                                    itsCol(kingPos) + checkArray[i][2])
                IN  \/ ~isValidPosition(pos, SIZE)
                    \/ aCells[pos].itsPieceType # NONE
                    \/ aCells[pos].itsCellType # NORMAL

\* aKingPos = {-1,-1} is the default argument.  Every call allocates its own
\* tracking array, and the loop hands the entries of checkArray themselves
\* to isValidPosition, to the array and to the recursive call.
isKingCapturedRecursive(aCells, SIZE, aKingPos) ==
    LET kingPos == IF itsCol(aKingPos) = -1 THEN getKingPosition(aCells) ELSE aKingPos
        explored(pos) ==
            /\ isValidPosition(pos, SIZE)
            /\ isCellChecked(SIZE, kingPos)[pos] = FALSE
            /\ aCells[pos].itsPieceType # SWORD
            /\ aCells[pos].itsCellType # CASTLE
            /\ aCells[pos].itsCellType # FORTRESS
    IN  IF itsCol(kingPos) = -1 THEN FALSE
        ELSE IF notKingOrShield(aCells[kingPos].itsPieceType) THEN FALSE
        ELSE \A i \in 1 .. 4 :
                explored(checkArray[i])
                    => isKingCapturedRecursive(aCells, SIZE, checkArray[i])

\* Variant: the game goes on when the attackers have lost every SWORD.
isGameFinished_swordsIgnored(aCells, SIZE) ==
    \/ isKingCapturedSimple(aCells, SIZE)
    \/ isKingEscaped(aCells)

isGameFinished(aCells, SIZE) ==
    \/ isKingCapturedSimple(aCells, SIZE)
    \/ isKingEscaped(aCells)
    \/ ~isSwordLeft(aCells)

\* The players whoWon can return, as itsCurrentPlayer names them, and the
\* null pointer.
nullptr == 0

\* Variant: the escape is looked at before the capture.
whoWon_escapeFirst(aCells, SIZE) ==
    IF isKingEscaped(aCells) THEN 2
    ELSE IF isKingCapturedSimple(aCells, SIZE) THEN 1
    ELSE IF ~isSwordLeft(aCells) THEN 2
    ELSE nullptr

\* Variant: losing every SWORD gives no winner.
whoWon_captureOrEscape(aCells, SIZE) ==
    IF isKingCapturedSimple(aCells, SIZE) THEN 1
    ELSE IF isKingEscaped(aCells) THEN 2
    ELSE nullptr

whoWon(aCells, SIZE) ==
    IF isKingCapturedSimple(aCells, SIZE) THEN 1
    ELSE IF ~isSwordLeft(aCells) THEN 2
    ELSE IF isKingEscaped(aCells) THEN 2
    ELSE nullptr

(***************************************************************************)
(* Tests of the endgame functions (test_isKingEscaped,                     *)
(* test_isKingCapturedSimple, test_isKingCapturedRecursive,                *)
(* test_isGameFinished, test_whoWon): the board is reset, the King and the *)
(* cells around it are written, and one function is called.                *)
(***************************************************************************)
\* resetBoard, then every cell receives the same piece: an empty board, or a
\* board on which SWORDs enclose whatever the test case places.
filledBoard(SIZE, piece) == [p \in BoardPositions(SIZE) |-> Cell(NORMAL, piece)]

\* b.itsCells[row][col] = ... for a position of the grid; a position outside
\* the grid is not part of the test case.
placeCell(aCells, aPos, aCell) ==
    IF aPos \in DOMAIN aCells THEN [aCells EXCEPT ![aPos] = aCell] ELSE aCells

\* Where the test cases put the King: away from the edges, on the top edge,
\* and on the first and the last corner.
KingPositions(SIZE) ==
    { Position(CaptureMiddle, CaptureMiddle), Position(0, CaptureMiddle),
      Position(0, 0), Position(SIZE - 1, SIZE - 1) }

\* What the test cases put next to the King: to its right and below it ...
NeighbourSetups ==
    { Cell(NORMAL, NONE), Cell(NORMAL, SHIELD), Cell(NORMAL, SWORD),
      Cell(FORTRESS, NONE), Cell(CASTLE, NONE) }

\* ... to its right also a SHIELD standing on the CASTLE ...
RightSetups == NeighbourSetups \cup { Cell(CASTLE, SHIELD) }

\* ... to its left and above it.
OtherSetups == { Cell(NORMAL, NONE), Cell(NORMAL, SWORD) }

\* Two and three cells to the right of the King: the rest of a corridor of
\* SHIELDs and its far end.
CorridorSetups(fill) == { Cell(NORMAL, fill), Cell(NORMAL, NONE), Cell(NORMAL, SHIELD) }
CorridorEndSetups(fill) == { Cell(NORMAL, fill), Cell(NORMAL, NONE) }

\* The cell diagonally below and right of the King.
DiagonalSetups(fill) == { Cell(NORMAL, fill), Cell(NORMAL, NONE) }

\* One board with a King.
kingBoard(SIZE, fill, k, kingCell, right, below, left, above, corridor, corridorEnd, diagonal) ==
    placeCell(placeCell(placeCell(placeCell(placeCell(placeCell(placeCell(placeCell(
        filledBoard(SIZE, fill),
        Position(itsRow(k) + 1, itsCol(k) + 1), diagonal),
        Position(itsRow(k), itsCol(k) + 3), corridorEnd),
        Position(itsRow(k), itsCol(k) + 2), corridor),
        Position(itsRow(k) - 1, itsCol(k)), above),
        Position(itsRow(k), itsCol(k) - 1), left),
        Position(itsRow(k) + 1, itsCol(k)), below),
        Position(itsRow(k), itsCol(k) + 1), right),
        k, kingCell)

\* The starting position, and boards without a King: an empty board, a board
\* full of SWORDs, and boards with a single SWORD or SHIELD.
PlainBoards(SIZE) ==
    { initializeBoard(SIZE), filledBoard(SIZE, NONE), filledBoard(SIZE, SWORD) }
    \cup
    { placeCell(filledBoard(SIZE, NONE), Position(CaptureMiddle, CaptureMiddle), Cell(ct, pt)) :
        ct \in CellType, pt \in {SWORD, SHIELD} }

\* The board of a test case: one of the plain boards, or a board with one
\* King and the cells around it.
InitEndgame ==
    /\ itsSize \in BoardSize
    /\ \/ itsCells \in PlainBoards(itsSize)
       \/ \E fill \in {NONE, SWORD}, k \in KingPositions(itsSize), kingCellType \in CellType,
             right \in RightSetups, below \in NeighbourSetups,
             left \in OtherSetups, above \in OtherSetups :
            \E corridor \in CorridorSetups(fill), corridorEnd \in CorridorEndSetups(fill),
               diagonal \in DiagonalSetups(fill) :
                itsCells = kingBoard(itsSize, fill, k, Cell(kingCellType, KING),
                                     right, below, left, above,
                                     corridor, corridorEnd, diagonal)
    /\ itsCurrentPlayer = 1
    /\ pc = "test"
    /\ turnMove = NoMove
    /\ validMove = FALSE
    /\ cellsRead = {}
    /\ turns = 0
    /\ returned = FALSE
    /\ cellsBefore = itsCells
    /\ outsideAccess = FALSE
    /\ loaded = FALSE
    /\ saveFile = NoFile
    /\ itsNames = DefaultNames

\* bool result = isKingEscaped(b);
TestIsKingEscaped ==
    /\ pc = "test"
    /\ returned' = isKingEscaped(itsCells)
    /\ pc' = "isKingEscaped"
    /\ UNCHANGED <<itsSize, itsCells, itsCurrentPlayer, turnMove, validMove, cellsRead,
                   turns, cellsBefore, outsideAccess, saveVars>>

\* isKingCapturedSimple(b)
TestIsKingCapturedSimple ==
    /\ pc = "test"
    /\ returned' = isKingCapturedSimple(itsCells, itsSize)
    /\ pc' = "isKingCapturedSimple"
    /\ UNCHANGED <<itsSize, itsCells, itsCurrentPlayer, turnMove, validMove, cellsRead,
                   turns, cellsBefore, outsideAccess, saveVars>>

\* isKingCapturedRecursive(b), with the default arguments
TestIsKingCapturedRecursive ==
    /\ pc = "test"
    /\ returned' = isKingCapturedRecursive(itsCells, itsSize, Position(-1, -1))
    /\ pc' = "isKingCapturedRecursive"
    /\ UNCHANGED <<itsSize, itsCells, itsCurrentPlayer, turnMove, validMove, cellsRead,
                   turns, cellsBefore, outsideAccess, saveVars>>

\* isGameFinished(game)
TestIsGameFinished ==
    /\ pc = "test"
    /\ returned' = isGameFinished(itsCells, itsSize)
    /\ pc' = "isGameFinished"
    /\ UNCHANGED <<itsSize, itsCells, itsCurrentPlayer, turnMove, validMove, cellsRead,
                   turns, cellsBefore, outsideAccess, saveVars>>

\* const Player* w = whoWon(game);
TestWhoWon ==
    /\ pc = "test"
    /\ returned' = whoWon(itsCells, itsSize)
    /\ pc' = "whoWon"
    /\ UNCHANGED <<itsSize, itsCells, itsCurrentPlayer, turnMove, validMove, cellsRead,
                   turns, cellsBefore, outsideAccess, saveVars>>

NextEndgame ==
    \/ TestWhoWon
    \/ TestIsKingEscaped
    \/ TestIsKingCapturedSimple
    \/ TestIsKingCapturedRecursive
    \/ TestIsGameFinished

SpecEndgame == InitEndgame /\ [][NextEndgame]_vars

(***************************************************************************)
(* createBoard, deleteBoard and initializeBoard on the grid it is given    *)
(***************************************************************************)
\* itsCells = nullptr: the board has no grid.
NoCells == << >>

\* What the cells of a grid hold when new Cell[SIZE] returns: nothing wrote
\* them.  The memory is zeroed, or holds what an earlier object left.
FreshCellValues == { Cell(NORMAL, NONE), Cell(CASTLE, KING), Cell(Garbage, Garbage) }

FreshCells(SIZE) == { [p \in BoardPositions(SIZE) |-> c] : c \in FreshCellValues }

\* createBoard(aBoard): the value returned and aBoard.itsCells afterwards;
\* fresh is the grid the new expressions hand out.
createBoard(aCells, SIZE, fresh) ==
    IF SIZE = 0 THEN [returned |-> FALSE, itsCells |-> aCells]
    ELSE IF aCells # NoCells THEN [returned |-> FALSE, itsCells |-> aCells]
    ELSE [returned |-> TRUE, itsCells |-> fresh]

\* The number of delete[] expressions deleteBoard evaluates: one for each of
\* the SIZE rows and one for the table, when the board has a grid.
deletedArrays(aCells, SIZE) == IF aCells # NoCells THEN SIZE + 1 ELSE 0

\* Variant: the rows are freed and the pointer is left as it was.
deleteBoard_keepPointer(aCells, SIZE) == aCells

\* deleteBoard(aBoard): aBoard.itsCells afterwards.
deleteBoard(aCells, SIZE) == IF aCells # NoCells THEN NoCells ELSE aCells

\* Variant: the first pair of loops sets the cell types only.
clearCells_typesOnly(aCells, SIZE) ==
    [p \in DOMAIN aCells |->
        Cell(initialCell(SIZE, p[1], p[2]).itsCellType, aCells[p].itsPieceType)]

\* initializeBoard, the first pair of loops: "set cellType and set piece to
\* NONE", the centre cell apart.
clearCells(aCells, SIZE) ==
    [p \in DOMAIN aCells |-> initialCell(SIZE, p[1], p[2])]

\* initializeBoard, the second pair of loops: "set all the piece type".
placePieces(aCells, SIZE) ==
    [p \in DOMAIN aCells |->
        IF p \in swordCells(SIZE) THEN Cell(aCells[p].itsCellType, SWORD)
        ELSE IF p \in shieldCells(SIZE) THEN Cell(aCells[p].itsCellType, SHIELD)
        ELSE aCells[p]]

\* initializeBoard(aBoard) on the grid aBoard holds: every write is guarded
\* by itsCells != nullptr.
initializeCells(aCells, SIZE) ==
    IF aCells # NoCells THEN placePieces(clearCells(aCells, SIZE), SIZE) ELSE aCells

(***************************************************************************)
(* The life of a Board: any sequence of createBoard, initializeBoard and   *)
(* deleteBoard calls (test_createBoard, test_deleteBoard and               *)
(* test_initializeBoard of src/Sources/tests.cpp)                          *)
(***************************************************************************)
\* Calls made on one Board.
MaxCalls == 3

\* Board::itsSize as the callers set it: the two sizes of BoardSize, the 0 of
\* test_createBoard, and two sizes that are neither (test_createBoard uses
\* 1000).
RequestedSizes == { 0, 3, LITTLE, 12, BIG }

\* The first sword of the top row moved down three rows.
playedBoard(SIZE) ==
    movePiece(initializeBoard(SIZE), Move(Position(0, 3), Position(3, 3)))

\* What a Board of size SIZE holds before the calls: no grid, a grid nothing
\* wrote, the starting position, a position changed by play, or stray pieces
\* on every cell.
StartCells(SIZE) ==
    {NoCells}
    \cup (IF SIZE > 0 THEN FreshCells(SIZE) ELSE {})
    \cup (IF SIZE \in BoardSize
          THEN { initializeBoard(SIZE), playedBoard(SIZE),
                 filledBoard(SIZE, SWORD), filledBoard(SIZE, KING) }
          ELSE {})

InitBoard ==
    /\ itsSize \in RequestedSizes
    /\ itsCells \in StartCells(itsSize)
    /\ itsCurrentPlayer = 1
    /\ pc = "start"
    /\ turnMove = NoMove
    /\ validMove = FALSE
    /\ cellsRead = {}
    /\ turns = 0
    /\ returned = FALSE
    /\ cellsBefore = itsCells
    /\ outsideAccess = FALSE
    /\ loaded = FALSE
    /\ saveFile = NoFile
    /\ itsNames = DefaultNames

\* bool result = createBoard(board);
CreateBoard ==
    /\ turns < MaxCalls
    /\ \E fresh \in (IF itsSize > 0 THEN FreshCells(itsSize) ELSE {NoCells}) :
        LET created == createBoard(itsCells, itsSize, fresh)
        IN  /\ returned' = created.returned
            /\ itsCells' = created.itsCells
    /\ cellsBefore' = itsCells
    /\ pc' = "createBoard"
    /\ turns' = turns + 1
    /\ UNCHANGED <<itsSize, itsCurrentPlayer, turnMove, validMove, cellsRead,
                   outsideAccess, saveVars>>

\* deleteBoard(board);  returned counts the arrays it freed.
DeleteBoard ==
    /\ turns < MaxCalls
    /\ returned' = deletedArrays(itsCells, itsSize)
    /\ itsCells' = deleteBoard(itsCells, itsSize)
    /\ cellsBefore' = itsCells
    /\ pc' = "deleteBoard"
    /\ turns' = turns + 1
    /\ UNCHANGED <<itsSize, itsCurrentPlayer, turnMove, validMove, cellsRead,
                   outsideAccess, saveVars>>

\* initializeBoard(board);
InitializeBoard ==
    /\ turns < MaxCalls
    /\ itsCells' = initializeCells(itsCells, itsSize)
    /\ cellsBefore' = itsCells
    /\ pc' = "initializeBoard"
    /\ turns' = turns + 1
    /\ UNCHANGED <<itsSize, itsCurrentPlayer, turnMove, validMove, cellsRead,
                   returned, outsideAccess, saveVars>>

NextBoard == CreateBoard \/ DeleteBoard \/ InitializeBoard

SpecBoard == InitBoard /\ [][NextBoard]_vars

(***************************************************************************)
(* Save files: updateSave, loadSave and saveManager                        *)
(***************************************************************************)
\* A file of the folder Save: the lines getline reads (without their line
\* ends) and, after them, the bytes of the grid.
SaveFile(header, grid) == [exists |-> TRUE, header |-> header, grid |-> grid]

\* The file createSave leaves: it exists and is empty.
EmptyFile == SaveFile(<< >>, << >>)

\* The line end std::endl writes.
LF == "LF"

\* The three bytes of the string literal written for an empty cell (a ballot
\* box with X in UTF-8: 0xE2 0x98 0x92).
BallotBox == << "e2", "98", "92" >>

\* The bytes updateSave writes for one cell: four separate tests, and no
\* byte for a value that is none of the four.
pieceBytes(piece) ==
    (IF piece = NONE THEN BallotBox ELSE << >>)
    \o (IF piece = SWORD THEN << "S" >> ELSE << >>)
    \o (IF piece = KING THEN << "K" >> ELSE << >>)
    \o (IF piece = SHIELD THEN << "s" >> ELSE << >>)

\* The bytes of the cells [line][col .. SIZE-1], then the line end.
RECURSIVE lineBytes(_, _, _, _)
lineBytes(aCells, SIZE, line, col) ==
    IF col >= SIZE THEN << LF >>
    ELSE pieceBytes(aCells[Position(line, col)].itsPieceType)
         \o lineBytes(aCells, SIZE, line, col + 1)

\* The bytes of the lines line .. SIZE-1.
RECURSIVE gridBytes(_, _, _)
gridBytes(aCells, SIZE, line) ==
    IF line >= SIZE THEN << >>
    ELSE lineBytes(aCells, SIZE, line, 0) \o gridBytes(aCells, SIZE, line + 1)

\* operator<< of an unscoped enumeration prints its integer value.
roleText(aRole) == IF aRole = ATTACK THEN "0" ELSE "1"

\* updateSave(aGame, saveName): the file afterwards.  A file that does not
\* exist is not written: createSave is called, which creates an empty file
\* or (created = FALSE) leaves the folder as it is.
updateSave(aFile, aCells, SIZE, aPlayer, names, created) ==
    IF aFile.exists
    THEN SaveFile(<< names[1], names[2], roleText(itsRole(aPlayer)), ToString(SIZE) >>,
                  gridBytes(aCells, SIZE, 0))
    ELSE IF created THEN EmptyFile ELSE aFile

\* A Game as its default member initializers leave it.
FreshGame ==
    [itsSize |-> LITTLE, itsCells |-> NoCells, itsCurrentPlayer |-> 1,
     itsNames |-> DefaultNames]

\* The cell type loadSave gives the cell [line][col].
loadedCellType(N, line, col) ==
    IF (line = 0 \/ line = N - 1) /\ (col = 0 \/ col = N - 1) THEN FORTRESS
    ELSE IF (N = 11 /\ line = 5 /\ col = 5) \/ (N = 11 /\ line = 6 /\ col = 6) THEN CASTLE
    ELSE NORMAL

\* The piece loadSave puts for the byte car.
loadedPiece(car) ==
    IF car = "K" THEN KING
    ELSE IF car = "S" THEN SWORD
    ELSE IF car = "s" THEN SHIELD
    ELSE NONE

\* The number, from 1, of the grid byte the cell [line][col] is read from:
\* one get for each cell and one more after each line.
cellByte(N, line, col) == line * (N + 1) + col + 1

\* The get of the cell [line][col] is the first that fails: the bytes end
\* just before it, or just before the get that follows the line above.
firstFailedGet(N, bytes, line, col) ==
    \/ cellByte(N, line, col) = bytes + 1
    \/ col = 0 /\ line > 0 /\ cellByte(N, line, col) = bytes + 2

\* loadSave(aGame, saveName) on a Game as its constructor leaves it: the
\* value returned and the Game afterwards.  freshCell is what the cells of
\* the grid createBoard allocates hold.  The function returns at the first
\* getline or get that fails, and keeps what it has written until then.
loadSave(aFile, freshCell) ==
    LET lines == Len(aFile.header)
        names == << IF lines >= 1 THEN aFile.header[1] ELSE FreshGame.itsNames[1],
                    IF lines >= 2 THEN aFile.header[2] ELSE FreshGame.itsNames[2] >>
        player == IF lines >= 3
                  THEN (IF aFile.header[3] = "0" THEN 1 ELSE 2)
                  ELSE FreshGame.itsCurrentPlayer
        N == IF lines >= 4
             THEN (IF aFile.header[4] = "11" THEN LITTLE ELSE BIG)
             ELSE FreshGame.itsSize
        grid == createBoard(FreshGame.itsCells, N,
                            [p \in BoardPositions(N) |-> freshCell]).itsCells
        bytes == Len(aFile.grid)
    IN  IF ~aFile.exists THEN [returned |-> FALSE, game |-> FreshGame]
        ELSE IF lines < 4
        THEN [returned |-> FALSE,
              game |-> [itsSize |-> N, itsCells |-> NoCells,
                        itsCurrentPlayer |-> player, itsNames |-> names]]
        ELSE [returned |-> bytes >= cellByte(N, N - 1, N - 1),
              game |-> [itsSize |-> N,
                        itsCells |->
                            [p \in BoardPositions(N) |->
                                IF cellByte(N, p[1], p[2]) <= bytes
                                THEN Cell(loadedCellType(N, p[1], p[2]),
                                          loadedPiece(aFile.grid[cellByte(N, p[1], p[2])]))
                                ELSE IF firstFailedGet(N, bytes, p[1], p[2])
                                THEN Cell(loadedCellType(N, p[1], p[2]),
                                          grid[p].itsPieceType)
                                ELSE grid[p]],
                        itsCurrentPlayer |-> player, itsNames |-> names]]

\* saveManager(game, saveName) when the player types 1 and the name of a
\* file: loadSave is called and its result is dropped; saveManager returns
\* true.  Typing 0 or 2 returns false and leaves the Game as it was.
saveManager(userInput, aFile, freshCell) ==
    IF userInput = 1
    THEN [returned |-> TRUE, game |-> loadSave(aFile, freshCell).game]
    ELSE [returned |-> FALSE, game |-> FreshGame]

\* A grid written with one byte for each cell, "." for an empty one, and a
\* line end after each line: the shape loadSave reads.
plainGrid(aCells, SIZE) ==
    [i \in 1 .. SIZE * (SIZE + 1) |->
        IF i % (SIZE + 1) = 0 THEN LF
        ELSE LET piece == aCells[Position((i - 1) \div (SIZE + 1),
                                          (i - 1) % (SIZE + 1))].itsPieceType
             IN  IF piece = KING THEN "K"
                 ELSE IF piece = SWORD THEN "S"
                 ELSE IF piece = SHIELD THEN "s"
                 ELSE "."]

\* A save written by hand or by another program in that shape.
plainSave(aCells, SIZE, aPlayer, names) ==
    SaveFile(<< names[1], names[2], roleText(itsRole(aPlayer)), ToString(SIZE) >>,
             plainGrid(aCells, SIZE))

(***************************************************************************)
(* playGame: a new game (no save loaded) and the turn loop                 *)
(***************************************************************************)
\* Accepted moves after which no further input is taken.
MaxTurns == 4

\* The grid positions the players type in.  On both boards they let a SWORD
\* of the top row come down next to the SHIELDs, a SHIELD flank it, a
\* SHIELD walk to the cell next to the right edge, and a piece of the top row
\* be sent to the FORTRESS that ends it.
InputCells(SIZE) ==
    IF SIZE = LITTLE
    THEN { Position(0, 7), Position(0, 9), Position(4, 7), Position(3, 5),
           Position(3, 7), Position(6, 6), Position(6, 9), Position(6, 10),
           Position(0, 10) }
    ELSE { Position(0, 7), Position(0, 9), Position(5, 7), Position(4, 6),
           Position(4, 7), Position(7, 6), Position(7, 11), Position(7, 12),
           Position(0, 12) }

\* pos1 and pos2 after the two getPositionFromInput calls: a position of the
\* grid, or the initial {-1,-1} when the typed text had a wrong length.
InputPositions(SIZE) == InputCells(SIZE) \cup {Position(-1, -1)}

InputMoves(SIZE) == { Move(s, e) : s \in InputPositions(SIZE), e \in InputPositions(SIZE) }

\* chooseSizeBoard, createBoard, initializeBoard; itsCurrentPlayer = &itsPlayer1.
\* validMove is not initialized, and it is assigned before it is read.
Init ==
    /\ itsSize \in BoardSize
    /\ itsCells = initializeBoard(itsSize)
    /\ itsCurrentPlayer = 1
    /\ pc = "loop"
    /\ turnMove = NoMove
    /\ validMove = FALSE
    /\ cellsRead = {}
    /\ turns = 0
    /\ returned = FALSE
    /\ cellsBefore = itsCells
    /\ outsideAccess = FALSE
    /\ loaded = FALSE
    /\ saveFile = NoFile
    /\ itsNames = TypedNames

\* while (!isGameFinished(game)) and the declarations that open the body.
LoopTest ==
    /\ pc = "loop"
    /\ itsCells # NoCells
    /\ IF isGameFinished(itsCells, itsSize)
       THEN pc' = "done" /\ UNCHANGED turnMove
       ELSE pc' = "input" /\ turnMove' = NoMove
    /\ UNCHANGED <<itsSize, itsCells, itsCurrentPlayer, validMove, cellsRead, turns, testVars, saveVars>>

\* Variant: the input loop is left after the first move, valid or not.
afterInput_noRetry(valid) == "movePiece"

\* do { ... } while (!validMove);
afterInput(valid) == IF valid THEN "movePiece" ELSE "input"

\* One pass of the input loop: two positions are read, turnMove is built and
\* validated.
InputMove ==
    /\ pc = "input"
    /\ turns < MaxTurns
    /\ \E m \in InputMoves(itsSize) :
        LET valid == isValidMovement(itsCells, itsSize, itsRole(itsCurrentPlayer), m)
        IN  /\ turnMove' = m
            /\ validMove' = valid
            /\ cellsRead' = isValidMovementReads(itsCells, itsSize, itsRole(itsCurrentPlayer), m)
            /\ pc' = afterInput(valid)
            /\ turns' = IF valid THEN turns + 1 ELSE turns
    /\ UNCHANGED <<itsSize, itsCells, itsCurrentPlayer, testVars, saveVars>>

\* movePiece(game, turnMove);
MovePiece ==
    /\ pc = "movePiece"
    /\ itsCells' = movePiece(itsCells, turnMove)
    /\ pc' = "capturePieces"
    /\ UNCHANGED <<itsSize, itsCurrentPlayer, turnMove, validMove, cellsRead, turns, testVars, saveVars>>

\* capturePieces(game, turnMove);  An access outside the grid is undefined
\* behaviour: it yields some value and the run goes on, or the process dies.
CapturePieces ==
    /\ pc = "capturePieces"
    /\ \E wildBelow \in WildCells, wildRight \in WildCells :
        LET st == capturePieces(itsCells, itsSize, itsRole(itsCurrentPlayer), turnMove,
                                wildBelow, wildRight)
        IN  /\ itsCells' = st.cells
            /\ \/ pc' = "switchCurrentPlayer"
               \/ st.outside /\ pc' = "crashed"
    /\ UNCHANGED <<itsSize, itsCurrentPlayer, turnMove, validMove, cellsRead, turns, testVars, saveVars>>

\* switchCurrentPlayer(game);  (updateSave writes a file and no game state)
SwitchCurrentPlayer ==
    /\ pc = "switchCurrentPlayer"
    /\ itsCurrentPlayer' = switchCurrentPlayer(itsCurrentPlayer)
    /\ pc' = "loop"
    /\ UNCHANGED <<itsSize, itsCells, turnMove, validMove, cellsRead, turns, testVars, saveVars>>

Next == LoopTest \/ InputMove \/ MovePiece \/ CapturePieces \/ SwitchCurrentPlayer

Spec == Init /\ [][Next]_vars

(***************************************************************************)
(* playGame on a new game or on a game loaded from a save                  *)
(***************************************************************************)
\* The row and the column of the SHIELD that DEFENSE can move to the right
\* with the positions of InputCells.
shieldRow(SIZE) == IF SIZE = LITTLE THEN 3 ELSE 4
shieldCol(SIZE) == IF SIZE = LITTLE THEN 5 ELSE 6

\* aCells with the pieces of placed put on their cells.
RECURSIVE placePiecesAt(_, _)
placePiecesAt(aCells, placed) ==
    IF placed = << >> THEN aCells
    ELSE placePiecesAt([aCells EXCEPT ![placed[1][1]].itsPieceType = placed[1][2]],
                       Tail(placed))

\* ATTACK to move: the King has a SWORD above, below and on its right, and
\* the SWORD of (0,7) can come down to the cell on its left; a SHIELD can
\* move along its row.
attackEndCells(SIZE) ==
    placePiecesAt(filledBoard(SIZE, NONE),
        << <<Position(4, 8), KING>>, <<Position(3, 8), SWORD>>,
           <<Position(5, 8), SWORD>>, <<Position(4, 9), SWORD>>,
           <<Position(0, 7), SWORD>>,
           <<Position(shieldRow(SIZE) + 3, shieldCol(SIZE) + 1), SHIELD>> >>)

\* DEFENSE to move: the last SWORD has a SHIELD on its right, and a SHIELD
\* can come to the cell on its left.
defenseEndCells(SIZE) ==
    placePiecesAt(filledBoard(SIZE, NONE),
        << <<Position(9, 9), KING>>,
           <<Position(shieldRow(SIZE), shieldCol(SIZE)), SHIELD>>,
           <<Position(shieldRow(SIZE), 8), SWORD>>,
           <<Position(shieldRow(SIZE), 9), SHIELD>> >>)

\* The King stands on the first corner.
escapedCells(SIZE) ==
    placePiecesAt(filledBoard(SIZE, NONE),
        << <<Position(0, 0), KING>>, <<Position(0, 7), SWORD>> >>)

\* The files the player can name in saveManager: saves of games near their
\* end, and the save updateSave writes for the starting position.
LoadableSaves ==
    UNION { { plainSave(attackEndCells(SIZE), SIZE, 1, TypedNames),
              plainSave(defenseEndCells(SIZE), SIZE, 2, TypedNames),
              plainSave(escapedCells(SIZE), SIZE, 1, TypedNames),
              updateSave(EmptyFile, initializeBoard(SIZE), SIZE, 1, TypedNames, TRUE) }
            : SIZE \in BoardSize }

\* saveManager returned true after a loadSave that read a whole grid; the
\* player does not ask for the game to be saved again.
InitLoaded ==
    \E aFile \in LoadableSaves, freshCell \in FreshCellValues :
        LET managed == saveManager(1, aFile, freshCell)
        IN  /\ loadSave(aFile, freshCell).returned
            /\ loaded = managed.returned
            /\ saveFile = aFile
            /\ itsSize = managed.game.itsSize
            /\ itsCells = managed.game.itsCells
            /\ itsCurrentPlayer = managed.game.itsCurrentPlayer
            /\ itsNames = managed.game.itsNames
            /\ pc = "loop"
            /\ turnMove = NoMove
            /\ validMove = FALSE
            /\ cellsRead = {}
            /\ turns = 0
            /\ returned = FALSE
            /\ cellsBefore = itsCells
            /\ outsideAccess = FALSE

InitPlay == Init \/ InitLoaded

SpecPlay == InitPlay /\ [][Next]_vars

(***************************************************************************)
(* Saving and loading: updateSave on a game, loadSave into a fresh Game    *)
(***************************************************************************)
\* The boards of the games that are saved: the starting position, a position
\* changed by play, positions near the end of a game, and a board with a
\* piece on every cell.
SavedCells(SIZE) ==
    { initializeBoard(SIZE), playedBoard(SIZE), attackEndCells(SIZE),
      filledBoard(SIZE, SWORD),
      placePiecesAt(filledBoard(SIZE, SHIELD), << <<Position(4, 8), KING>> >>) }

\* A grid with two KINGs.
twoKingsCells(SIZE) ==
    placePiecesAt(attackEndCells(SIZE), << <<Position(7, 2), KING>> >>)

\* The first bytes of a grid: none, one line without and with its line end,
\* all lines but the last cell and its line end.
truncatedGrids(grid, SIZE) ==
    { SubSeq(grid, 1, n) : n \in { 0, SIZE, SIZE + 1, SIZE * (SIZE + 1) - 2 } }

\* The files found in the folder Save that no updateSave of this game wrote:
\* whole saves of both sizes, one of them without the last line end; saves
\* whose fourth line names another size, with the grid of that size; saves
\* with two KINGs; saves whose grid or whose head is cut short.
FoundSaves ==
    UNION { { plainSave(attackEndCells(SIZE), SIZE, 1, TypedNames),
              plainSave(initializeBoard(SIZE), SIZE, 2, DefaultNames),
              plainSave(twoKingsCells(SIZE), SIZE, 1, TypedNames),
              SaveFile(<< "Ragnar", "Olaf", "0", ToString(SIZE) >>,
                       SubSeq(plainGrid(attackEndCells(SIZE), SIZE), 1,
                              SIZE * (SIZE + 1) - 1)),
              plainSave(placePiecesAt(filledBoard(SIZE + 1, NONE),
                                      << <<Position(4, 8), KING>> >>),
                        SIZE + 1, 1, TypedNames),
              plainSave(placePiecesAt(filledBoard(SIZE + 2, NONE),
                                      << <<Position(4, 8), KING>> >>),
                        SIZE + 2, 2, TypedNames) }
            \cup { SaveFile(<< "Ragnar", "Olaf", "1", ToString(SIZE) >>, grid) :
                     grid \in truncatedGrids(plainGrid(defenseEndCells(SIZE), SIZE), SIZE) }
            : SIZE \in BoardSize }
    \cup { EmptyFile, SaveFile(<< "Ragnar", "Olaf" >>, << >>),
           SaveFile(<< "Ragnar", "Olaf", "0" >>, << >>) }

InitSave ==
    /\ itsSize \in BoardSize
    /\ \E aCells \in SavedCells(itsSize) : itsCells = aCells
    /\ itsCurrentPlayer \in {1, 2}
    /\ itsNames \in {DefaultNames, TypedNames}
    /\ saveFile \in {NoFile} \cup FoundSaves
    /\ loaded = FALSE
    /\ pc = "start"
    /\ turnMove = NoMove
    /\ validMove = FALSE
    /\ cellsRead = {}
    /\ turns = 0
    /\ returned = FALSE
    /\ cellsBefore = itsCells
    /\ outsideAccess = FALSE

\* updateSave(game, saveName);  When the file does not exist createSave is
\* called, which creates it or not.
UpdateSave ==
    /\ pc = "start"
    /\ \E created \in BOOLEAN :
        saveFile' = updateSave(saveFile, itsCells, itsSize, itsCurrentPlayer,
                               itsNames, created)
    /\ pc' = (IF saveFile.exists THEN "updateSave" ELSE "createSave")
    /\ UNCHANGED <<itsSize, itsCells, itsCurrentPlayer, turnMove, validMove, cellsRead,
                   turns, testVars, loaded, itsNames>>

\* Game fresh; bool ok = loadSave(fresh, saveName);  returned holds ok and
\* the Game fresh afterwards.
LoadSave ==
    /\ pc \in {"start", "updateSave", "createSave"}
    /\ \E freshCell \in FreshCellValues : returned' = loadSave(saveFile, freshCell)
    /\ pc' = (IF pc = "updateSave" THEN "reloaded" ELSE "loadSave")
    /\ UNCHANGED <<itsSize, itsCells, itsCurrentPlayer, turnMove, validMove, cellsRead,
                   turns, cellsBefore, outsideAccess, saveVars>>

NextSave == UpdateSave \/ LoadSave

SpecSave == InitSave /\ [][NextSave]_vars

(***************************************************************************)
(* playGame from its first statement: saveManager, the set-up of a new     *)
(* game, and the first test of the turn loop                               *)
(***************************************************************************)
\* chooseSizeBoard: 13 and 11 are stored, any other number leaves aBoardSize
\* as it is.
chooseSizeBoard(aBoardSize, size) ==
    IF size = 13 THEN BIG
    ELSE IF size = 11 THEN LITTLE
    ELSE aBoardSize

\* The numbers typed at chooseSizeBoard's prompt.
TypedSizes == { 11, 12, 13 }

\* The save the typed name designates: none, or one of the files above.
NamedSaves == FoundSaves \cup {NoFile}

\* Game game; string saveName = "";
InitPlayGame ==
    /\ itsSize = FreshGame.itsSize
    /\ itsCells = FreshGame.itsCells
    /\ itsCurrentPlayer = FreshGame.itsCurrentPlayer
    /\ itsNames = FreshGame.itsNames
    /\ saveFile \in NamedSaves
    /\ loaded = FALSE
    /\ pc = "playGame"
    /\ turnMove = NoMove
    /\ validMove = FALSE
    /\ cellsRead = {}
    /\ turns = 0
    /\ returned = FALSE
    /\ cellsBefore = itsCells
    /\ outsideAccess = FALSE

\* bool loaded = saveManager(game, saveName);  returned keeps what the user
\* typed and what the call of loadSave returned, which saveManager drops.
SaveManager ==
    /\ pc = "playGame"
    /\ \E userInput \in {0, 1, 2}, freshCell \in FreshCellValues :
        LET managed == saveManager(userInput, saveFile, freshCell)
        IN  /\ loaded' = managed.returned
            /\ itsSize' = managed.game.itsSize
            /\ itsCells' = managed.game.itsCells
            /\ itsCurrentPlayer' = managed.game.itsCurrentPlayer
            /\ itsNames' = managed.game.itsNames
            /\ returned' = [userInput |-> userInput,
                            loadSave |-> userInput = 1
                                         /\ loadSave(saveFile, freshCell).returned]
            /\ saveFile' = IF userInput = 2 THEN NoFile ELSE saveFile
    /\ pc' = "saveManager"
    /\ UNCHANGED <<turnMove, validMove, cellsRead, turns, cellsBefore, outsideAccess>>

\* if (!loaded) { chooseSizeBoard; createBoard; initializeBoard; the two
\* names } and the question about saving.
SetUp ==
    /\ pc = "saveManager"
    /\ IF ~loaded
       THEN \E size \in TypedSizes :
              LET chosen == chooseSizeBoard(itsSize, size)
              IN  \E fresh \in FreshCells(chosen) :
                    /\ itsSize' = chosen
                    /\ itsCells' = initializeCells(createBoard(itsCells, chosen, fresh).itsCells,
                                                   chosen)
                    /\ itsNames' = TypedNames
       ELSE UNCHANGED <<itsSize, itsCells, itsNames>>
    /\ pc' = "loop"
    /\ UNCHANGED <<itsCurrentPlayer, turnMove, validMove, cellsRead, turns, testVars,
                   loaded, saveFile>>

\* while (!isGameFinished(game)) when itsCells is the null pointer:
\* getKingPosition and isSwordLeft read itsCells[i][j], undefined behaviour.
\* The process dies, or the test yields either value.
LoopTestUnallocated ==
    /\ pc = "loop"
    /\ itsCells = NoCells
    /\ pc' \in {"crashed", "done", "input"}
    /\ UNCHANGED <<itsSize, itsCells, itsCurrentPlayer, turnMove, validMove, cellsRead,
                   turns, testVars, saveVars>>

NextPlayGame == SaveManager \/ SetUp \/ LoopTest \/ LoopTestUnallocated

SpecPlayGame == InitPlayGame /\ [][NextPlayGame]_vars

(***************************************************************************)
(* playGame on the 11x11 starting position with the moves of one game      *)
(* typed in, each as row and column of pos1 and of pos2                    *)
(***************************************************************************)
\* ATTACK opens; DEFENSE brings the KING to the right edge, two cells above
\* the bottom right FORTRESS; both sides then go on playing.
TypedGame ==
    << <<0, 3, 1, 3>>, <<5, 7, 5, 8>>, <<1, 3, 2, 3>>, <<5, 6, 5, 7>>,
       <<2, 3, 3, 3>>, <<6, 6, 6, 7>>, <<0, 4, 1, 4>>, <<5, 5, 5, 6>>,
       <<1, 4, 2, 4>>, <<5, 6, 8, 6>>, <<0, 7, 1, 7>>, <<8, 6, 8, 10>>,
       <<1, 7, 2, 7>>, <<6, 7, 8, 7>>, <<5, 9, 9, 9>>, <<4, 6, 4, 8>>,
       <<3, 0, 3, 1>>, <<3, 5, 3, 8>>, <<1, 5, 1, 9>>, <<7, 5, 7, 7>>,
       <<0, 6, 9, 6>>, <<5, 3, 7, 3>>, <<5, 1, 9, 1>>, <<8, 7, 8, 9>>,
       <<3, 1, 6, 1>>, <<7, 3, 7, 6>>, <<1, 9, 3, 9>>, <<5, 8, 8, 8>>,
       <<3, 3, 8, 3>>, <<6, 4, 8, 4>>, <<7, 0, 7, 5>>, <<4, 8, 7, 8>>,
       <<3, 9, 7, 9>>, <<3, 8, 6, 8>>, <<5, 0, 5, 3>>, <<8, 4, 8, 7>>,
       <<6, 1, 6, 7>>, <<4, 4, 8, 4>>, <<2, 4, 7, 4>>, <<4, 5, 4, 7>>,
       <<0, 5, 0, 9>>, <<8, 4, 8, 6>>, <<9, 6, 9, 8>>, <<4, 7, 4, 8>>,
       <<4, 0, 4, 7>>, <<8, 10, 9, 10>>, <<0, 9, 5, 9>>, <<8, 8, 8, 10>>,
       <<6, 0, 6, 6>>, <<8, 7, 8, 9>>, <<5, 9, 6, 9>>, <<8, 6, 8, 8>>,
       <<9, 1, 9, 3>>, <<4, 8, 5, 8>>, <<9, 5, 9, 7>>, <<7, 7, 8, 7>>,
       <<8, 3, 8, 5>>, <<7, 6, 7, 7>>, <<7, 4, 9, 4>>, <<5, 8, 6, 8>>,
       <<6, 6, 9, 6>> >>

typedMove(k) ==
    Move(Position(TypedGame[k][1], TypedGame[k][2]),
         Position(TypedGame[k][3], TypedGame[k][4]))

\* What the side to move types in one pass of the input loop after `played`
\* turns: the next move of the game, that move backwards, or the cell of the
\* KING and the bottom right FORTRESS.
TypedInputs(aCells, SIZE, played) ==
    { Move(k, Position(SIZE - 1, SIZE - 1)) :
        k \in { p \in BoardPositions(SIZE) : aCells[p].itsPieceType = KING } }
    \cup (IF played < Len(TypedGame)
          THEN { typedMove(played + 1),
                 Move(typedMove(played + 1).itsEndPosition,
                      typedMove(played + 1).itsStartPosition) }
          ELSE {})

InitGame == Init /\ itsSize = LITTLE

\* One pass of the input loop on the typed game.
TypedInput ==
    /\ pc = "input"
    /\ \E m \in TypedInputs(itsCells, itsSize, turns) :
        LET valid == isValidMovement(itsCells, itsSize, itsRole(itsCurrentPlayer), m)
        IN  /\ turnMove' = m
            /\ validMove' = valid
            /\ cellsRead' = isValidMovementReads(itsCells, itsSize, itsRole(itsCurrentPlayer), m)
            /\ pc' = afterInput(valid)
            /\ turns' = IF valid THEN turns + 1 ELSE turns
    /\ UNCHANGED <<itsSize, itsCells, itsCurrentPlayer, testVars, saveVars>>

NextGame == LoopTest \/ TypedInput \/ MovePiece \/ CapturePieces \/ SwitchCurrentPlayer

SpecGame == InitGame /\ [][NextGame]_vars



(***************************************************************************)
(* Properties of isValidMovement and movePiece (checked under SpecTest)    *)
(***************************************************************************)
role == itsRole(itsCurrentPlayer)
startPos == turnMove.itsStartPosition
endPos == turnMove.itsEndPosition

InGrid(aPos) == itsRow(aPos) \in 0 .. itsSize - 1 /\ itsCol(aPos) \in 0 .. itsSize - 1
MoveInGrid == InGrid(startPos) /\ InGrid(endPos)

\* The start cell holds a piece of the side to move.
OwnPiece(aRole, aPiece) ==
    \/ aRole = ATTACK /\ aPiece = SWORD
    \/ aRole = DEFENSE /\ aPiece \in {SHIELD, KING}

Orthogonal(s, e) == (itsRow(s) = itsRow(e)) # (itsCol(s) = itsCol(e))

\* The cells strictly between s and e of a move along a row or a column.
StrictlyBetween(s, e) ==
    IF itsRow(s) = itsRow(e)
    THEN { Position(itsRow(s), c) : c \in
             { k \in 0 .. itsSize - 1 :
                 \/ itsCol(s) < k /\ k < itsCol(e)
                 \/ itsCol(e) < k /\ k < itsCol(s) } }
    ELSE IF itsCol(s) = itsCol(e)
    THEN { Position(r, itsCol(s)) : r \in
             { k \in 0 .. itsSize - 1 :
                 \/ itsRow(s) < k /\ k < itsRow(e)
                 \/ itsRow(e) < k /\ k < itsRow(s) } }
    ELSE {}

EmptyNormal(aPos) ==
    itsCells[aPos].itsPieceType = NONE /\ itsCells[aPos].itsCellType = NORMAL

PathFree == \A p \in StrictlyBetween(startPos, endPos) : EmptyNormal(p)

\* The move goes towards a higher row or column index.
Increasing(s, e) ==
    \/ itsRow(s) = itsRow(e) /\ itsCol(s) < itsCol(e)
    \/ itsCol(s) = itsCol(e) /\ itsRow(s) < itsRow(e)

\* The six legality rules.
SixRules ==
    /\ MoveInGrid
    /\ OwnPiece(role, itsCells[startPos].itsPieceType)
    /\ Orthogonal(startPos, endPos)
    /\ PathFree
    /\ itsCells[endPos].itsPieceType = NONE
    /\ (itsCells[startPos].itsPieceType # KING => itsCells[endPos].itsCellType = NORMAL)

\* C1: every move that satisfies the six legality rules is accepted by
\* isValidMovement, whichever of the four directions it goes.
C1_SixRulesAccepted ==
    (pc = "validated" /\ SixRules) => validMove = TRUE

\* C2: with DEFENSE to move, a KING move along a row or column over empty
\* NORMAL cells onto an empty FORTRESS or CASTLE cell is accepted.
C2_KingLandsOnSpecialCell ==
    ( /\ pc = "validated"
      /\ role = DEFENSE
      /\ MoveInGrid
      /\ itsCells[startPos].itsPieceType = KING
      /\ Orthogonal(startPos, endPos)
      /\ PathFree
      /\ itsCells[endPos].itsPieceType = NONE
      /\ itsCells[endPos].itsCellType \in {FORTRESS, CASTLE} )
    => validMove = TRUE

\* C3: a move with a cell strictly between start and end that holds a piece
\* or is a FORTRESS or CASTLE cell is rejected, for every piece and side.
C3_BlockedPathRejected ==
    ( /\ pc = "validated"
      /\ MoveInGrid
      /\ \E p \in StrictlyBetween(startPos, endPos) :
            \/ itsCells[p].itsPieceType # NONE
            \/ itsCells[p].itsCellType \in {FORTRESS, CASTLE} )
    => validMove = FALSE

\* C3 witness: the KING was asked to pass an empty FORTRESS or CASTLE cell on
\* the way to an empty NORMAL cell further along, and was refused.
C3_Witness ==
    /\ pc = "validated"
    /\ MoveInGrid
    /\ role = DEFENSE
    /\ itsCells[startPos].itsPieceType = KING
    /\ Increasing(startPos, endPos)
    /\ EmptyNormal(endPos)
    /\ \E p \in StrictlyBetween(startPos, endPos) :
          /\ itsCells[p].itsPieceType = NONE
          /\ itsCells[p].itsCellType \in {FORTRESS, CASTLE}
    /\ \A p \in StrictlyBetween(startPos, endPos) : itsCells[p].itsPieceType = NONE
    /\ validMove = FALSE

\* C4: a move whose start cell does not hold a piece of the side to move
\* (an enemy piece or no piece at all) is rejected.
C4_WrongOwnerRejected ==
    ( /\ pc = "validated"
      /\ MoveInGrid
      /\ ~OwnPiece(role, itsCells[startPos].itsPieceType) )
    => validMove = FALSE

\* C4 witness: DEFENSE asked to move from an empty cell along a free path to
\* an empty NORMAL cell, and was refused.
C4_Witness ==
    /\ pc = "validated"
    /\ MoveInGrid
    /\ role = DEFENSE
    /\ itsCells[startPos].itsPieceType = NONE
    /\ Increasing(startPos, endPos)
    /\ PathFree
    /\ EmptyNormal(endPos)
    /\ validMove = FALSE

\* C5: a move that changes both the row and the column, and a move of
\* length zero, is rejected for every piece and side.
C5_ShapeRejected ==
    ( /\ pc = "validated"
      /\ \/ /\ itsRow(startPos) # itsRow(endPos)
            /\ itsCol(startPos) # itsCol(endPos)
         \/ startPos = endPos )
    => validMove = FALSE

\* C5 witness: a diagonal move of an own piece to an empty NORMAL cell on an
\* otherwise empty board was refused.
C5_Witness ==
    /\ pc = "validated"
    /\ MoveInGrid
    /\ itsRow(startPos) # itsRow(endPos)
    /\ itsCol(startPos) # itsCol(endPos)
    /\ OwnPiece(role, itsCells[startPos].itsPieceType)
    /\ \A p \in BoardPositions(itsSize) \ {startPos} : EmptyNormal(p)
    /\ validMove = FALSE

\* C6: a move whose destination cell holds a piece is rejected, along a row
\* as along a column and in both directions.
C6_OccupiedDestinationRejected ==
    ( /\ pc = "validated"
      /\ MoveInGrid
      /\ itsCells[endPos].itsPieceType # NONE )
    => validMove = FALSE

\* C6 witness: an own piece was asked to move along a row, over a free path,
\* onto a different cell that holds a piece, and was refused.
C6_Witness ==
    /\ pc = "validated"
    /\ MoveInGrid
    /\ OwnPiece(role, itsCells[startPos].itsPieceType)
    /\ itsRow(startPos) = itsRow(endPos)
    /\ itsCol(startPos) < itsCol(endPos)
    /\ PathFree
    /\ itsCells[endPos].itsPieceType # NONE
    /\ itsCells[endPos].itsCellType = NORMAL
    /\ validMove = FALSE

\* C7: a move of a SWORD or a SHIELD onto a FORTRESS or CASTLE cell is
\* rejected.
C7_RestrictedDestinationRejected ==
    ( /\ pc = "validated"
      /\ MoveInGrid
      /\ itsCells[startPos].itsPieceType \in {SWORD, SHIELD}
      /\ itsCells[endPos].itsCellType \in {FORTRESS, CASTLE} )
    => validMove = FALSE

\* C7 witness: the side to move asked to bring its SWORD or SHIELD over a free
\* path onto an empty FORTRESS or CASTLE cell, and was refused.
C7_Witness ==
    /\ pc = "validated"
    /\ MoveInGrid
    /\ itsCells[startPos].itsPieceType \in {SWORD, SHIELD}
    /\ OwnPiece(role, itsCells[startPos].itsPieceType)
    /\ Orthogonal(startPos, endPos)
    /\ PathFree
    /\ itsCells[endPos].itsPieceType = NONE
    /\ itsCells[endPos].itsCellType \in {FORTRESS, CASTLE}
    /\ validMove = FALSE

\* C8: a move with a start or end coordinate outside [0, N) is rejected, and
\* isValidMovement reads no cell of the board before rejecting it.
C8_OutOfBoundsRejectedUnread ==
    (pc = "validated" /\ ~MoveInGrid) => (validMove = FALSE /\ cellsRead = {})

\* C8 witness: a move from outside the grid to a cell inside it was refused.
C8_Witness ==
    /\ pc = "validated"
    /\ ~InGrid(startPos)
    /\ InGrid(endPos)
    /\ validMove = FALSE

\* C10: movePiece(start, end) with start # end puts the piece of start onto
\* end, empties start, and leaves every other piece and every cell type alone.
C10_MovePieceEffect ==
    [][ (pc' = "moved" /\ turnMove'.itsStartPosition # turnMove'.itsEndPosition) =>
            LET s == turnMove'.itsStartPosition
                e == turnMove'.itsEndPosition
            IN  /\ itsCells'[e].itsPieceType = itsCells[s].itsPieceType
                /\ itsCells'[s].itsPieceType = NONE
                /\ \A p \in BoardPositions(itsSize) \ {s, e} :
                      itsCells'[p].itsPieceType = itsCells[p].itsPieceType
                /\ \A p \in BoardPositions(itsSize) :
                      itsCells'[p].itsCellType = itsCells[p].itsCellType
                /\ DOMAIN itsCells' = DOMAIN itsCells ]_vars

\* C10 witness: movePiece has put the KING onto a FORTRESS or CASTLE cell and
\* its start cell, a different cell, is empty.
C10_Witness ==
    /\ pc = "moved"
    /\ startPos # endPos
    /\ itsCells[endPos].itsPieceType = KING
    /\ itsCells[endPos].itsCellType \in {FORTRESS, CASTLE}
    /\ itsCells[startPos].itsPieceType = NONE

(***************************************************************************)
(* Properties of the turn loop of playGame (checked under Spec)            *)
(***************************************************************************)
\* C9: a rejected move changes nothing: when isValidMovement returns false
\* in playGame's turn no cell changes, the side to move stays the same and
\* the input loop goes on; the cells change only while playGame applies a
\* move that isValidMovement accepted on the board as it was.
C9_RejectedMoveChangesNothing ==
    [][ /\ (pc = "input" /\ validMove' = FALSE) =>
              /\ itsCells' = itsCells
              /\ itsCurrentPlayer' = itsCurrentPlayer
              /\ pc' = "input"
        /\ (itsCells' # itsCells) =>
              /\ validMove = TRUE
              /\ pc \in {"movePiece", "capturePieces"}
              /\ pc = "movePiece" =>
                    isValidMovement(itsCells, itsSize, itsRole(itsCurrentPlayer), turnMove)
      ]_vars

\* C9 witness: after an accepted move changed the board, the side to move
\* typed a move of its own piece inside the grid that was refused, and the
\* input loop asks again.
C9_Witness ==
    /\ pc = "input"
    /\ turns > 0
    /\ itsCells # initializeBoard(itsSize)
    /\ validMove = FALSE
    /\ MoveInGrid
    /\ OwnPiece(role, itsCells[startPos].itsPieceType)

(***************************************************************************)
(* Properties of capturePieces (checked under SpecCapture).  cellsBefore   *)
(* is the board after movePiece, itsCells the board after capturePieces.   *)
(***************************************************************************)
Directions == { <<0, -1>>, <<0, 1>>, <<-1, 0>>, <<1, 0>> }

AdjacentTo(aPos, d) == Position(itsRow(aPos) + d[1], itsCol(aPos) + d[2])
BeyondOf(aPos, d) == Position(itsRow(aPos) + 2 * d[1], itsCol(aPos) + 2 * d[2])

\* The piece kind the side aRole captures.
Victim(aRole) == IF aRole = ATTACK THEN SHIELD ELSE SWORD

\* capturePieces has returned.
Captured == pc = "captured"

\* Before capturePieces an enemy piece stood next to the destination in
\* direction d.
EnemyAdjacent(d) ==
    /\ InGrid(AdjacentTo(endPos, d))
    /\ cellsBefore[AdjacentTo(endPos, d)].itsPieceType = Victim(role)

\* The cell beyond it is in the grid and flanks it: a piece of the mover's
\* side, a FORTRESS, or an empty CASTLE.
FlankedInGrid(d) ==
    /\ InGrid(BeyondOf(endPos, d))
    /\ LET beyond == cellsBefore[BeyondOf(endPos, d)]
       IN  \/ OwnPiece(role, beyond.itsPieceType)
           \/ beyond.itsCellType = FORTRESS
           \/ beyond.itsCellType = CASTLE /\ beyond.itsPieceType = NONE

\* The cell beyond it is in the grid and protects it: a piece of the
\* victim's side on a NORMAL or CASTLE cell, or an empty NORMAL cell.
ProtectedInGrid(d) ==
    /\ InGrid(BeyondOf(endPos, d))
    /\ LET beyond == cellsBefore[BeyondOf(endPos, d)]
       IN  \/ /\ beyond.itsPieceType # NONE
              /\ ~OwnPiece(role, beyond.itsPieceType)
              /\ beyond.itsCellType \in {NORMAL, CASTLE}
           \/ beyond.itsPieceType = NONE /\ beyond.itsCellType = NORMAL

\* C11: after movePiece, capturePieces removes every enemy piece next to
\* the destination whose cell beyond, in the grid, holds a piece of the
\* mover's side, is a FORTRESS or is an empty CASTLE, in each of the four
\* directions.
C11_FlankedEnemyCaptured ==
    Captured =>
        \A d \in Directions :
            EnemyAdjacent(d) /\ FlankedInGrid(d)
                => itsCells[AdjacentTo(endPos, d)].itsPieceType = NONE

\* C12: capturePieces removes an enemy piece next to the destination when
\* the cell beyond it is outside the grid, on each of the four edges.
C12_EdgeEnemyCaptured ==
    Captured =>
        \A d \in Directions :
            EnemyAdjacent(d) /\ ~InGrid(BeyondOf(endPos, d))
                => itsCells[AdjacentTo(endPos, d)].itsPieceType = NONE

\* C13: capturePieces leaves an enemy piece next to the destination in place
\* when the cell beyond it is in the grid and holds a piece of the victim's
\* side or is an empty NORMAL cell, wherever the pieces stand.
C13_ProtectedEnemyKept ==
    Captured =>
        \A d \in Directions :
            EnemyAdjacent(d) /\ ProtectedInGrid(d)
                => itsCells[AdjacentTo(endPos, d)].itsPieceType = Victim(role)

\* C14: capturePieces changes no cell type, and changes the piece of a cell
\* only if the cell is one of the four neighbours of the destination, held
\* an enemy piece (SHIELD for ATTACK, SWORD for DEFENSE) and is now empty.
C14_CaptureFrame ==
    pc \in {"captured", "crashed"} =>
        \A p \in BoardPositions(itsSize) :
            /\ itsCells[p].itsCellType = cellsBefore[p].itsCellType
            /\ itsCells[p].itsPieceType # cellsBefore[p].itsPieceType =>
                  /\ \E d \in Directions : p = AdjacentTo(endPos, d)
                  /\ cellsBefore[p].itsPieceType = Victim(role)
                  /\ itsCells[p].itsPieceType = NONE

\* A capture happened next to other pieces that stayed: a piece of the
\* mover's side or the KING is also next to the destination.
C14_Witness ==
    /\ Captured
    /\ \E d \in Directions :
        /\ EnemyAdjacent(d)
        /\ itsCells[AdjacentTo(endPos, d)].itsPieceType = NONE
    /\ \E d \in Directions :
        /\ InGrid(AdjacentTo(endPos, d))
        /\ itsCells[AdjacentTo(endPos, d)].itsPieceType \in {SWORD, SHIELD, KING}
    /\ itsCells[endPos].itsPieceType # NONE

\* C15: capturePieces reads and writes cells of the grid only.
C15_CaptureStaysInGrid ==
    pc \in {"captured", "crashed"} => ~outsideAccess

(***************************************************************************)
(* Properties of the endgame functions (checked under SpecEndgame);        *)
(* returned is the value of the function named by pc.                      *)
(***************************************************************************)
KingCells == { p \in BoardPositions(itsSize) : itsCells[p].itsPieceType = KING }
KingOnBoard == KingCells # {}
TheKing == CHOOSE p \in KingCells : TRUE

\* A neighbour of the King that counts against it.
Hostile(aPos) ==
    \/ ~InGrid(aPos)
    \/ itsCells[aPos].itsPieceType = SWORD
    \/ itsCells[aPos].itsCellType \in {FORTRESS, CASTLE}

KingSurrounded == KingOnBoard /\ \A d \in Directions : Hostile(AdjacentTo(TheKing, d))
KingOnFortress == KingOnBoard /\ itsCells[TheKing].itsCellType = FORTRESS
NoSwordLeft == \A p \in BoardPositions(itsSize) : itsCells[p].itsPieceType # SWORD

\* C16: isKingEscaped is true iff a KING is on the board and stands on a
\* FORTRESS cell; it is false on CASTLE and NORMAL cells and without a King.
C16_EscapedIffKingOnFortress ==
    pc = "isKingEscaped" => (returned <=> KingOnFortress)

\* The King stands on a FORTRESS and isKingEscaped said so.
C16_Witness ==
    pc = "isKingEscaped" /\ returned /\ KingOnFortress

\* C17: isKingCapturedSimple is true iff a KING is on the board and each of
\* its four neighbours is outside the grid, holds a SWORD, or is a FORTRESS
\* or CASTLE cell whatever it holds; it is false without a King.
C17_SimpleIffSurrounded ==
    pc = "isKingCapturedSimple" => (returned <=> KingSurrounded)

\* A King on the edge reported captured, one of its neighbours being a
\* CASTLE that holds a SHIELD.
C17_Witness ==
    /\ pc = "isKingCapturedSimple" /\ returned /\ KingOnBoard
    /\ \E d \in Directions : ~InGrid(AdjacentTo(TheKing, d))
    /\ \E d \in Directions :
        /\ InGrid(AdjacentTo(TheKing, d))
        /\ itsCells[AdjacentTo(TheKing, d)] = Cell(CASTLE, SHIELD)

\* The KING and SHIELD cells connected to the set aGroup by orthogonal steps.
RECURSIVE DefenderGroup(_)
DefenderGroup(aGroup) ==
    LET next == aGroup \cup
                { q \in { AdjacentTo(p, d) : p \in aGroup, d \in Directions } :
                    InGrid(q) /\ itsCells[q].itsPieceType \in {KING, SHIELD} }
    IN  IF next = aGroup THEN aGroup ELSE DefenderGroup(next)

KingGroup == DefenderGroup({TheKing})

\* Some cell of the King's group has an empty NORMAL cell next to it.
GroupHasFreeCell ==
    \E p \in KingGroup, d \in Directions :
        /\ InGrid(AdjacentTo(p, d))
        /\ itsCells[AdjacentTo(p, d)] = Cell(NORMAL, NONE)

\* Every SHIELD stands on a NORMAL cell, so that a cell is either part of a
\* group or a FORTRESS / CASTLE bordering it.
ShieldsOnNormal ==
    \A p \in BoardPositions(itsSize) :
        itsCells[p].itsPieceType = SHIELD => itsCells[p].itsCellType = NORMAL

\* C18: isKingCapturedRecursive returns true whenever the King's connected
\* group of KING and SHIELD cells has no empty NORMAL cell next to it.
C18_EnclosedGroupCaptured ==
    pc = "isKingCapturedRecursive" /\ KingOnBoard /\ ShieldsOnNormal /\ ~GroupHasFreeCell
        => returned = TRUE

\* C19: isKingCapturedRecursive returns false whenever some cell of the
\* King's group has an empty NORMAL cell next to it, and when no King is on
\* the board.
C19_FreeGroupNotCaptured ==
    pc = "isKingCapturedRecursive" =>
        /\ ~KingOnBoard => returned = FALSE
        /\ KingOnBoard /\ ShieldsOnNormal /\ GroupHasFreeCell => returned = FALSE

\* A King with no empty NORMAL cell next to itself, whose group reaches one
\* through a SHIELD, reported not captured.
C19_Witness ==
    /\ pc = "isKingCapturedRecursive" /\ returned = FALSE
    /\ KingOnBoard /\ ShieldsOnNormal /\ GroupHasFreeCell
    /\ \A d \in Directions :
        InGrid(AdjacentTo(TheKing, d)) => itsCells[AdjacentTo(TheKing, d)] # Cell(NORMAL, NONE)

\* The board is the one initializeBoard makes (of the boards with an empty
\* FORTRESS in the first corner).
StartingPosition ==
    /\ itsCells[Position(0, 0)] = Cell(FORTRESS, NONE)
    /\ itsCells = initializeBoard(itsSize)

\* C20: isGameFinished is true iff the King is captured in the simple sense,
\* or the King has escaped, or no SWORD is left; the starting position is
\* not finished.
C20_FinishedIffThreeConditions ==
    pc = "isGameFinished" =>
        /\ returned <=> (KingSurrounded \/ KingOnFortress \/ NoSwordLeft)
        /\ StartingPosition => ~returned

\* A board with a free King and no SWORD, reported finished.
C20_Witness ==
    /\ pc = "isGameFinished" /\ returned
    /\ KingOnBoard /\ ~KingSurrounded /\ ~KingOnFortress /\ NoSwordLeft

\* C21: whoWon returns Player1 (ATTACK) iff the King is captured in the
\* simple sense, whatever else holds; otherwise Player2 (DEFENSE) iff no
\* SWORD is left or the King has escaped; otherwise no winner.
C21_WhoWon ==
    pc = "whoWon" =>
        /\ returned = 1 <=> KingSurrounded
        /\ returned = 2 <=> ~KingSurrounded /\ (NoSwordLeft \/ KingOnFortress)
        /\ returned = nullptr <=> ~KingSurrounded /\ ~NoSwordLeft /\ ~KingOnFortress

\* A surrounded King that stands on a FORTRESS, on a board without SWORDs:
\* Player1 is returned.
C21_Witness ==
    pc = "whoWon" /\ returned = 1 /\ KingSurrounded /\ KingOnFortress /\ NoSwordLeft

(***************************************************************************)
(* Properties of playGame on a new or a loaded game (checked under         *)
(* SpecPlay)                                                               *)
(***************************************************************************)
\* The side to move when the turn loop starts: the attacker in a new game,
\* the side the third line of the save names in a loaded one.
FirstSide == IF loaded /\ saveFile.header[3] # "0" THEN DEFENSE ELSE ATTACK

OtherSide(side) == IF side = ATTACK THEN DEFENSE ELSE ATTACK

\* The accepted moves whose turn is over: the last accepted move is still
\* being processed until the side to move has been switched.
TurnsOver ==
    IF pc \in {"movePiece", "capturePieces", "switchCurrentPlayer", "crashed"}
    THEN turns - 1 ELSE turns

\* The sides alternate over the accepted moves, and the attacker makes the
\* first move of a new game.
SidesAlternate ==
    /\ role = (IF TurnsOver % 2 = 0 THEN FirstSide ELSE OtherSide(FirstSide))
    /\ ~loaded /\ turns = 0 => role = ATTACK

\* One step of the processing of a move: the input loop is left only with an
\* accepted move, then movePiece, then capturePieces on the board movePiece
\* left, then the switch of the side, then the evaluation; a finished game
\* takes no step.
ProcessingStep ==
    /\ pc = "input" =>
          /\ pc' = (IF validMove' THEN "movePiece" ELSE "input")
          /\ validMove' = isValidMovement(itsCells, itsSize, role, turnMove')
          /\ itsCells' = itsCells /\ itsCurrentPlayer' = itsCurrentPlayer
    /\ pc = "movePiece" =>
          /\ pc' = "capturePieces"
          /\ itsCells' = [itsCells EXCEPT ![startPos].itsPieceType = NONE,
                                          ![endPos].itsPieceType =
                                              itsCells[startPos].itsPieceType]
          /\ turnMove' = turnMove /\ itsCurrentPlayer' = itsCurrentPlayer
    /\ pc = "capturePieces" =>
          /\ pc' \in {"switchCurrentPlayer", "crashed"}
          /\ \A p \in DOMAIN itsCells :
                itsCells'[p] # itsCells[p] =>
                    /\ \E d \in Directions : p = AdjacentTo(endPos, d)
                    /\ itsCells'[p] = Cell(itsCells[p].itsCellType, NONE)
          /\ turnMove' = turnMove
          /\ itsCurrentPlayer' = itsCurrentPlayer
    /\ pc = "switchCurrentPlayer" =>
          /\ pc' = "loop"
          /\ OtherSide(role) = itsRole(itsCurrentPlayer')
          /\ itsCells' = itsCells
    /\ pc = "loop" =>
          /\ pc' = (IF KingSurrounded \/ KingOnFortress \/ NoSwordLeft
                    THEN "done" ELSE "input")
          /\ itsCells' = itsCells /\ itsCurrentPlayer' = itsCurrentPlayer
    /\ pc # "done"

\* C22: playGame processes every accepted move in the order movePiece,
\* capturePieces on the same board, switch of the side, evaluation of
\* isGameFinished; when the game is finished no move is asked for or applied
\* and the board changes no more, otherwise the other side moves; the
\* attacker moves first in a new game and the sides alternate strictly over
\* the accepted moves.
C22_TurnOrder == []SidesAlternate /\ [][ProcessingStep]_vars

\* C22 witness: a game is over after three accepted moves, two by the side
\* that moved first and one by the other.
C22_Witness ==
    /\ pc = "done"
    /\ turns = 3
    /\ role = OtherSide(FirstSide)

(***************************************************************************)
(* Properties of the games played from the starting position (checked      *)
(* under Spec)                                                             *)
(***************************************************************************)
PiecesOfKind(piece) == { p \in BoardPositions(itsSize) : itsCells[p].itsPieceType = piece }

Corners == { Position(r, c) : r \in {0, itsSize - 1}, c \in {0, itsSize - 1} }
Centre == Position((itsSize - 1) \div 2, (itsSize - 1) \div 2)
KindOf(aPos) ==
    IF aPos \in Corners THEN FORTRESS ELSE IF aPos = Centre THEN CASTLE ELSE NORMAL

LayoutKept == \A p \in BoardPositions(itsSize) : itsCells[p].itsCellType = KindOf(p)

KindsKept == \A p \in BoardPositions(itsSize) : itsCells'[p].itsCellType = itsCells[p].itsCellType

\* C24: no step of a game played from the starting position changes the
\* cell type of a cell, and in every state the FORTRESS cells are the four
\* corners and the only CASTLE cell is the centre cell.
C24_CellKindsFixed == []LayoutKept /\ [][KindsKept]_vars

\* C24 witness: four moves were made, pieces stand on other cells than at
\* the start and one was captured, and the cell types are those of the
\* starting position.
C24_Witness ==
    /\ pc = "loop"
    /\ turns = 4
    /\ Cardinality(PiecesOfKind(SWORD)) + Cardinality(PiecesOfKind(SHIELD)) < 36
    /\ Cardinality({ p \in Corners : itsCells[p].itsCellType = FORTRESS }) = 4
    /\ itsCells[Centre].itsCellType = CASTLE

(***************************************************************************)
(* Properties of createBoard, deleteBoard and initializeBoard (checked     *)
(* under SpecBoard).  cellsBefore is the grid before the last call.        *)
(***************************************************************************)
\* initializeBoard has returned, on a board of a supported size that had a
\* grid.
Initialized ==
    /\ pc = "initializeBoard"
    /\ itsSize \in BoardSize
    /\ cellsBefore # NoCells

Distance(a, b) == IF a < b THEN b - a ELSE a - b

\* aPos lies in the row or the column of the centre, from 1 to reach cells
\* away from it.
AlongCentreLine(aPos, reach) ==
    \/ aPos[1] = Centre[1] /\ Distance(aPos[2], Centre[2]) \in 1 .. reach
    \/ aPos[2] = Centre[2] /\ Distance(aPos[1], Centre[1]) \in 1 .. reach

\* The 12 SHIELD cells of the starting layout.
ShieldLayout ==
    { p \in BoardPositions(itsSize) :
        IF itsSize = 11
        THEN \/ AlongCentreLine(p, 2)
             \/ Distance(p[1], Centre[1]) = 1 /\ Distance(p[2], Centre[2]) = 1
        ELSE AlongCentreLine(p, 3) }

\* The 24 SWORD cells: on each edge the five cells centred on its midpoint,
\* and the cell one step inward from that midpoint.
SwordLayout ==
    { p \in BoardPositions(itsSize) :
        \/ p[1] \in {0, itsSize - 1} /\ Distance(p[2], Centre[2]) <= 2
        \/ p[2] \in {0, itsSize - 1} /\ Distance(p[1], Centre[1]) <= 2
        \/ p[1] \in {1, itsSize - 2} /\ p[2] = Centre[2]
        \/ p[2] \in {1, itsSize - 2} /\ p[1] = Centre[1] }

PieceLayout(aPos) ==
    IF aPos = Centre THEN KING
    ELSE IF aPos \in ShieldLayout THEN SHIELD
    ELSE IF aPos \in SwordLayout THEN SWORD
    ELSE NONE

CellsOfKind(kind) == { p \in BoardPositions(itsSize) : itsCells[p].itsCellType = kind }

\* C25: after initializeBoard on an allocated board of size 11 or 13 every
\* cell has the cell type and the piece of the starting layout, which makes
\* 1 KING, 12 SHIELDs, 24 SWORDs, 4 FORTRESS cells and 1 CASTLE cell.
C25_StartingLayout ==
    Initialized =>
        /\ \A p \in BoardPositions(itsSize) : itsCells[p] = Cell(KindOf(p), PieceLayout(p))
        /\ Cardinality(PiecesOfKind(KING)) = 1
        /\ Cardinality(PiecesOfKind(SHIELD)) = 12
        /\ Cardinality(PiecesOfKind(SWORD)) = 24
        /\ Cardinality(CellsOfKind(FORTRESS)) = 4
        /\ Cardinality(CellsOfKind(CASTLE)) = 1

\* C25 witness: a 13x13 grid that nothing had written holds the starting
\* layout after createBoard and initializeBoard.
C25_Witness ==
    /\ Initialized
    /\ itsSize = BIG
    /\ cellsBefore[Position(0, 0)] = Cell(Garbage, Garbage)
    /\ itsCells[Centre] = Cell(CASTLE, KING)
    /\ itsCells[Position(6, 3)].itsPieceType = SHIELD
    /\ itsCells[Position(11, 6)].itsPieceType = SWORD

\* C26: initializeBoard overwrites what the grid held: whatever it held, the
\* result is the position initializeBoard gives on an empty grid, and a
\* second initializeBoard leaves that result as it is.
C26_Overwrites ==
    Initialized =>
        /\ itsCells = initializeCells(filledBoard(itsSize, NONE), itsSize)
        /\ initializeCells(itsCells, itsSize) = itsCells

\* C26 witness: the grid held a KING on every cell, also on the first corner
\* and next to the centre, and holds the starting position now.
C26_Witness ==
    /\ Initialized
    /\ cellsBefore[Position(0, 0)].itsPieceType = KING
    /\ cellsBefore[Position(2, 2)].itsPieceType = KING
    /\ itsCells[Position(0, 0)] = Cell(FORTRESS, NONE)
    /\ itsCells[Position(2, 2)] = Cell(NORMAL, NONE)
    /\ PiecesOfKind(KING) = {Centre}

\* C27: createBoard returns false and allocates nothing whenever the size of
\* the board is neither 11 nor 13.
C27_UnsupportedSizeRejected ==
    pc = "createBoard" /\ itsSize \notin BoardSize =>
        /\ returned = FALSE
        /\ itsCells = cellsBefore

\* C28: over any sequence of createBoard and deleteBoard calls, createBoard
\* on a board without a grid and of a supported size returns true and leaves
\* a grid of that size; createBoard on a board that has a grid returns false
\* and leaves that grid as it is; after deleteBoard the board has no grid;
\* deleteBoard on a board without a grid, deleted before or never allocated,
\* frees nothing and changes nothing, and on a board with a grid it frees
\* each of its arrays once.
C28_AllocationLifecycle ==
    /\ pc = "createBoard" /\ cellsBefore = NoCells /\ itsSize \in BoardSize =>
          /\ returned = TRUE
          /\ itsCells # NoCells
          /\ DOMAIN itsCells = BoardPositions(itsSize)
    /\ pc = "createBoard" /\ cellsBefore # NoCells =>
          /\ returned = FALSE
          /\ itsCells = cellsBefore
    /\ pc = "deleteBoard" =>
          /\ itsCells = NoCells
          /\ cellsBefore = NoCells => returned = 0
          /\ cellsBefore # NoCells => returned = itsSize + 1

\* C28 witness: the third call is a deleteBoard on a board that has no grid
\* any more, and it freed nothing.
C28_Witness ==
    /\ pc = "deleteBoard"
    /\ turns = 3
    /\ cellsBefore = NoCells
    /\ itsCells = NoCells
    /\ returned = 0

(***************************************************************************)
(* Properties of updateSave and loadSave (checked under SpecSave).  The    *)
(* game variables hold the game that was saved, returned.game the Game     *)
(* that loadSave filled.                                                   *)
(***************************************************************************)
\* loadSave has returned from reading the file that updateSave wrote for
\* this game into a save that existed.
Reloaded == pc = "reloaded"

\* C29: updateSave followed by loadSave of the file into a fresh Game
\* reproduces the size of the board, the piece of every cell, empty cells
\* included, the two names and the player to move.
C29_SaveLoadRoundTrip ==
    Reloaded =>
        /\ returned.returned = TRUE
        /\ returned.game.itsSize = itsSize
        /\ DOMAIN returned.game.itsCells = BoardPositions(itsSize)
        /\ \A p \in BoardPositions(itsSize) :
              returned.game.itsCells[p].itsPieceType = itsCells[p].itsPieceType
        /\ returned.game.itsNames = itsNames
        /\ returned.game.itsCurrentPlayer = itsCurrentPlayer

\* loadSave has returned.
Loaded == pc \in {"loadSave", "reloaded"}

\* What the claim calls malformed data: a fourth line that names neither 11
\* nor 13; a grid with two KINGs; a grid with fewer bytes than the cells of
\* the stored size and the line ends between them.
StoredSizeWrong == Len(saveFile.header) >= 4 /\ saveFile.header[4] \notin {"11", "13"}

StoredKings == { i \in 1 .. Len(saveFile.grid) : saveFile.grid[i] = "K" }

StoredGridTruncated ==
    /\ Len(saveFile.header) >= 4
    /\ \E N \in BoardSize :
          /\ saveFile.header[4] = ToString(N)
          /\ Len(saveFile.grid) < N * (N + 1) - 1

\* C30: loadSave returns false when the stored size is neither 11 nor 13,
\* when the stored grid holds two KINGs, and when the stored grid is
\* truncated.
C30_MalformedSaveRejected ==
    Loaded /\ saveFile.exists
           /\ (StoredSizeWrong \/ Cardinality(StoredKings) >= 2 \/ StoredGridTruncated)
        => returned.returned = FALSE

\* The cell type the rules give the position aPos of a board of size N.
KindOn(N, aPos) ==
    IF aPos[1] \in {0, N - 1} /\ aPos[2] \in {0, N - 1} THEN FORTRESS
    ELSE IF aPos = Position((N - 1) \div 2, (N - 1) \div 2) THEN CASTLE
    ELSE NORMAL

\* C31: after a loadSave that returned true the loaded board has FORTRESS
\* on exactly its four corners, CASTLE on exactly its centre cell ((5,5) on
\* 11x11, (6,6) on 13x13) and NORMAL on every other cell.
C31_LoadedLayout ==
    Loaded /\ returned.returned =>
        \A p \in BoardPositions(returned.game.itsSize) :
            returned.game.itsCells[p].itsCellType = KindOn(returned.game.itsSize, p)

(***************************************************************************)
(* Further properties of the end-of-game functions (checked under          *)
(* SpecEndgame)                                                            *)
(***************************************************************************)
\* No SHIELD stands on a FORTRESS or CASTLE cell.
ShieldsOnNormalCells ==
    \A p \in PiecesOfKind(SHIELD) : itsCells[p].itsCellType = NORMAL

\* C35: on every board with one KING where no SHIELD stands on a FORTRESS or
\* CASTLE cell, a King that is captured in the simple sense (every neighbour
\* off the grid, a SWORD, or a FORTRESS or CASTLE cell) is reported captured
\* by isKingCapturedRecursive.
C35_RecursiveAtLeastSimple ==
    pc = "isKingCapturedRecursive" /\ Cardinality(KingCells) = 1
        /\ ShieldsOnNormalCells /\ KingSurrounded
        => returned

\* C38: whoWon returns a player iff isGameFinished is true of the same board.
C38_WinnerIffFinished ==
    /\ pc = "whoWon" => (returned # nullptr <=> isGameFinished(itsCells, itsSize))
    /\ pc = "isGameFinished" => (returned <=> whoWon(itsCells, itsSize) # nullptr)

\* A free King on a board that has lost every SWORD: the game is finished
\* and whoWon names a player.
C38_Witness ==
    /\ pc = "whoWon" /\ returned # nullptr
    /\ KingOnBoard /\ ~KingSurrounded /\ ~KingOnFortress /\ NoSwordLeft

(***************************************************************************)
(* Further properties of a game played from the starting position          *)
(* (checked under Spec)                                                    *)
(***************************************************************************)
\* C36: in every state of a game played from the starting position no SWORD
\* and no SHIELD stands on a FORTRESS or CASTLE cell.
C36_SoldiersOnNormalCells ==
    \A p \in PiecesOfKind(SWORD) \cup PiecesOfKind(SHIELD) :
        itsCells[p].itsCellType = NORMAL

\* After a played turn a SWORD or SHIELD of the side to move was sent along
\* a free row onto the FORTRESS that ends it, and the move was refused.
C36_Witness ==
    /\ pc = "input" /\ turns >= 1 /\ turnMove # NoMove /\ ~validMove
    /\ isValidPosition(turnMove.itsStartPosition, itsSize)
    /\ isValidPosition(turnMove.itsEndPosition, itsSize)
    /\ itsCells[turnMove.itsStartPosition].itsPieceType
            = (IF itsRole(itsCurrentPlayer) = ATTACK THEN SWORD ELSE SHIELD)
    /\ itsCells[turnMove.itsEndPosition].itsCellType = FORTRESS
    /\ turnMove.itsStartPosition[1] = turnMove.itsEndPosition[1]
    /\ turnMove.itsStartPosition[2] < turnMove.itsEndPosition[2]
    /\ \A c \in (turnMove.itsStartPosition[2] + 1) .. turnMove.itsEndPosition[2] :
            itsCells[Position(turnMove.itsStartPosition[1], c)].itsPieceType = NONE

\* The number of pieces of one kind after the step.
PiecesAfter(piece) ==
    Cardinality({ p \in BoardPositions(itsSize) : itsCells'[p].itsPieceType = piece })

PieceCountsBounded ==
    Cardinality(PiecesOfKind(SWORD)) <= 24 /\ Cardinality(PiecesOfKind(SHIELD)) <= 12

PieceCountsKept ==
    \/ itsCells' = itsCells
    \/ /\ PiecesAfter(SWORD) <= Cardinality(PiecesOfKind(SWORD))
       /\ PiecesAfter(SHIELD) <= Cardinality(PiecesOfKind(SHIELD))
       /\ itsRole(itsCurrentPlayer) = ATTACK
               => PiecesAfter(SWORD) = Cardinality(PiecesOfKind(SWORD))
       /\ itsRole(itsCurrentPlayer) = DEFENSE
               => PiecesAfter(SHIELD) = Cardinality(PiecesOfKind(SHIELD))

\* C37: along a game from the starting position there are never more than 24
\* SWORDs or 12 SHIELDs, no step increases either number, a step of ATTACK's
\* turn keeps the number of SWORDs and a step of DEFENSE's turn keeps the
\* number of SHIELDs.
C37_PiecesNeverCreated == []PieceCountsBounded /\ [][PieceCountsKept]_vars

\* DEFENSE has played a turn that captured a SWORD: 23 SWORDs and 12 SHIELDs
\* are left.
C37_Witness ==
    /\ pc = "switchCurrentPlayer" /\ itsRole(itsCurrentPlayer) = DEFENSE
    /\ Cardinality(PiecesOfKind(SWORD)) = 23
    /\ Cardinality(PiecesOfKind(SHIELD)) = 12

(***************************************************************************)
(* Properties of playGame's set-up (checked under SpecPlayGame)            *)
(***************************************************************************)
\* The user chose to load a save and loadSave returned false.
LoadFailed == returned.userInput = 1 /\ ~returned.loadSave

\* C33: when the turn loop starts the board is allocated; and when the user
\* chose to load a save and loadSave failed, playGame knows it (loaded is
\* false) and the board is a new board in its starting position.
C33_FailedLoadFallsBack ==
    pc = "loop" =>
        /\ itsCells # NoCells
        /\ LoadFailed => ~loaded /\ itsSize \in BoardSize
                                 /\ itsCells = initializeBoard(itsSize)

(***************************************************************************)
(* Properties of the typed game (checked under SpecGame)                   *)
(***************************************************************************)
\* The cells strictly between two cells of one row or of one column.
CellsBetween(a, b) ==
    { p \in BoardPositions(itsSize) :
        \/ a[1] = b[1] /\ p[1] = a[1]
              /\ ((a[2] < p[2] /\ p[2] < b[2]) \/ (b[2] < p[2] /\ p[2] < a[2]))
        \/ a[2] = b[2] /\ p[2] = a[2]
              /\ ((a[1] < p[1] /\ p[1] < b[1]) \/ (b[1] < p[1] /\ p[1] < a[1])) }

\* DEFENSE has typed a move of the KING to an empty FORTRESS in its row or
\* column, every cell between the two being an empty NORMAL cell.
EscapeTyped ==
    /\ pc = "input" /\ turnMove # NoMove
    /\ itsRole(itsCurrentPlayer) = DEFENSE
    /\ isValidPosition(turnMove.itsStartPosition, itsSize)
    /\ isValidPosition(turnMove.itsEndPosition, itsSize)
    /\ itsCells[turnMove.itsStartPosition].itsPieceType = KING
    /\ itsCells[turnMove.itsEndPosition] = Cell(FORTRESS, NONE)
    /\ (turnMove.itsStartPosition[1] = turnMove.itsEndPosition[1]
          \/ turnMove.itsStartPosition[2] = turnMove.itsEndPosition[2])
    /\ \A p \in CellsBetween(turnMove.itsStartPosition, turnMove.itsEndPosition) :
            itsCells[p] = Cell(NORMAL, NONE)

\* C32: DEFENSE can win by escape through the turn loop: in a game from the
\* starting position, the move that takes the KING along a free line onto a
\* FORTRESS is accepted by isValidMovement (the turn then ends with the KING
\* on the FORTRESS, isKingEscaped true and whoWon returning DEFENSE).
C32_DefenseEscapes == EscapeTyped => validMove

\* No state of the game has the KING on a FORTRESS, and no move that ends on
\* a FORTRESS or CASTLE cell is ever accepted.
EscapeNeverHappens ==
    /\ ~KingOnFortress
    /\ pc = "movePiece" => itsCells[turnMove.itsEndPosition].itsCellType = NORMAL

\* C34: in every state of a game from the starting position in which
\* isGameFinished is false and a move is asked for, the side to move has at
\* least one move that isValidMovement accepts.
C34_MoveAvailable ==
    pc = "input" =>
        \E s \in BoardPositions(itsSize), e \in BoardPositions(itsSize) :
            isValidMovement(itsCells, itsSize, itsRole(itsCurrentPlayer), Move(s, e))


====
